---- MODULE Spec2Model ----
(***************************************************************************)
(* A model of the Archivas SDK signing pipeline:                           *)
(*   TxBody -> canonical JSON bytes -> domain-separated hash -> Ed25519    *)
(*   signature -> SignedTx in a wire text encoding.                        *)
(*                                                                         *)
(* Byte arrays (Uint8Array) are sequences over 0..255.  Strings are        *)
(* sequences of Unicode code points (well-formed strings only, so that     *)
(* TextEncoder.encode is plain UTF-8).  A TxBody is a sequence of          *)
(* <<key, value>> entries in insertion order, as a JavaScript object is.   *)
(*                                                                         *)
(* The three external libraries are abstracted:                            *)
(*  - Ed25519 (@noble/curves) is an ideal deterministic signature scheme:  *)
(*    a public key is a fixed function of the signing scalar, and exactly  *)
(*    one signature verifies for a (message, public key) pair;             *)
(*  - blake2b (@noble/hashes) is a position-sensitive polynomial digest;   *)
(*  - JSON.stringify / TextEncoder are modelled by what they emit.         *)
(***************************************************************************)
EXTENDS Integers, Sequences, FiniteSets, TLC

\* ------------------------------------------------------------------ bounds

\* How many operations may be called on one (tx, key) pair before new inputs
\* are chosen.
MaxCalls == 2

\* How many calls are in flight at once.
MaxInFlight == 2

\* ------------------------------------------------------------- JS values

\* A JavaScript value as it can sit in a TxBody field or a parameter.
Str(s) == [t |-> "string", s |-> s, n |-> 0]
Num(n) == [t |-> "number", s |-> <<>>, n |-> n]
Undefined == [t |-> "undefined", s |-> <<>>, n |-> 0]

\* JavaScript truthiness of a value (used by `params.memo && ...`).
Truthy(v) ==
  CASE v.t = "string" -> Len(v.s) > 0
    [] v.t = "number" -> v.n # 0
    [] OTHER -> FALSE

\* Concatenation of at most eight sequences.
Flatten8(ss) ==
  LET P(i) == IF i <= Len(ss) THEN ss[i] ELSE <<>>
  IN P(1) \o P(2) \o P(3) \o P(4) \o P(5) \o P(6) \o P(7) \o P(8)

\* Concatenation of a sequence of sequences (in eight parts at a time).
RECURSIVE Flatten(_)
Flatten(ss) ==
  IF Len(ss) <= 8 THEN Flatten8(ss)
  ELSE
    LET k == (Len(ss) + 7) \div 8
        Part(c) == SubSeq(ss, (c - 1) * k + 1, IF c * k < Len(ss) THEN c * k ELSE Len(ss))
    IN Flatten8([c \in 1..8 |-> Flatten(Part(c))])

\* F applied to the value of v (v is evaluated once).
With(v, F(_)) == CHOOSE r \in {F(x) : x \in {v}} : TRUE

\* A sequence of n copies of x.
Repeat(x, n) == [i \in 1..n |-> x]

\* ------------------------------------------------------- string literals
\* The string literals of the source, as code points.

S_type == <<116, 121, 112, 101>>
S_transfer == <<116, 114, 97, 110, 115, 102, 101, 114>>
S_from == <<102, 114, 111, 109>>
S_to == <<116, 111>>
S_amount == <<97, 109, 111, 117, 110, 116>>
S_fee == <<102, 101, 101>>
S_nonce == <<110, 111, 110, 99, 101>>
S_memo == <<109, 101, 109, 111>>

\* ARCHIVAS_CONSTANTS.DOMAIN_SEPARATOR = "Archivas-TxV1"
DOMAIN_SEPARATOR == <<65, 114, 99, 104, 105, 118, 97, 115, 45, 84, 120, 86, 49>>

\* ARCHIVAS_CONSTANTS.MAX_MEMO_LENGTH
MAX_MEMO_LENGTH == 256

\* Lengths of the Ed25519 objects, as the length checks of the source spell them.
SEED_LEN == 32
SECRET_KEY_LEN == 64
PUBLIC_KEY_LEN == 32
SIGNATURE_LEN == 64
HASH_LEN == 32

\* ------------------------------------------------------------ TextEncoder

\* The UTF-8 bytes of one code point.
Utf8Char(c) ==
  IF c < 128 THEN <<c>>
  ELSE IF c < 2048 THEN <<192 + (c \div 64), 128 + (c % 64)>>
  ELSE IF c < 65536 THEN
    <<224 + (c \div 4096), 128 + ((c \div 64) % 64), 128 + (c % 64)>>
  ELSE
    <<240 + (c \div 262144), 128 + ((c \div 4096) % 64),
      128 + ((c \div 64) % 64), 128 + (c % 64)>>

\* The number of UTF-8 bytes of one code point.
Utf8CharLen(c) ==
  IF c < 128 THEN 1 ELSE IF c < 2048 THEN 2 ELSE IF c < 65536 THEN 3 ELSE 4

\* new TextEncoder().encode(s): the UTF-8 bytes of every code point in turn
\* (a string of ASCII alone is its own encoding).
TextEncode(s) ==
  IF \A i \in 1..Len(s) : s[i] < 128 THEN s
  ELSE Flatten([i \in 1..Len(s) |-> Utf8Char(s[i])])

\* ------------------------------------------------------------- hex (hash.ts)

\* One lowercase hex digit, as a code point: b.toString(16)
HexDigit(n) == IF n < 10 THEN 48 + n ELSE 87 + n

\* The value of a hex digit code point, or -1 when it is none (parseInt radix 16
\* accepts both cases).
HexValue(c) ==
  IF c >= 48 /\ c <= 57 THEN c - 48
  ELSE IF c >= 97 /\ c <= 102 THEN c - 87
  ELSE IF c >= 65 /\ c <= 70 THEN c - 55
  ELSE -1

\* bytesToHex(bytes): two lowercase digits per byte, zero padded.
bytesToHex(bytes) ==
  [i \in 1..(2 * Len(bytes)) |->
     IF i % 2 = 1 THEN HexDigit(bytes[(i + 1) \div 2] \div 16)
     ELSE HexDigit(bytes[i \div 2] % 16)]

\* White space that parseInt skips: tab, line feed, vertical tab, form feed,
\* carriage return, space.
IsWhiteSpace(c) == c \in {9, 10, 11, 12, 13, 32}

\* parseInt(two, 16) stored into a Uint8Array cell: leading white space and
\* a sign are skipped, the hex digits that follow are parsed and the rest is
\* ignored; no digit gives NaN, stored as 0; a negative number is stored
\* modulo 256.
ParseHexPair(c1, c2) ==
  IF HexValue(c1) >= 0
  THEN IF HexValue(c2) < 0 THEN HexValue(c1) ELSE 16 * HexValue(c1) + HexValue(c2)
  ELSE IF HexValue(c2) < 0 THEN 0
  ELSE IF IsWhiteSpace(c1) \/ c1 = 43 THEN HexValue(c2)
  ELSE IF c1 = 45 THEN (256 - HexValue(c2)) % 256
  ELSE 0

\* The hex text with a prefix 0x left in place.
StripHexPrefix_Keeps(hex) == hex

\* hex.startsWith('0x') ? hex.slice(2) : hex
StripHexPrefix(hex) ==
  IF Len(hex) >= 2 /\ hex[1] = 48 /\ hex[2] = 120
  THEN SubSeq(hex, 3, Len(hex)) ELSE hex

\* hexToBytes(hex): throws on an odd number of digits.
hexToBytes(hex) ==
  LET clean == StripHexPrefix(hex) IN
  IF Len(clean) % 2 # 0
  THEN [ok |-> FALSE, err |-> "Invalid hex string length", val |-> <<>>]
  ELSE [ok |-> TRUE, err |-> "",
        val |-> [i \in 1..(Len(clean) \div 2) |->
                   ParseHexPair(clean[2 * i - 1], clean[2 * i])]]

\* ---------------------------------------------------------- base64 (tx.ts)

\* The code point of one base64 digit of the standard alphabet.
Base64Digit(n) ==
  IF n < 26 THEN 65 + n
  ELSE IF n < 52 THEN 71 + n
  ELSE IF n < 62 THEN n - 4
  ELSE IF n = 62 THEN 43 ELSE 47

\* The value of a base64 code point, or -1 (Buffer also reads '-' and '_').
Base64Value(c) ==
  IF c >= 65 /\ c <= 90 THEN c - 65
  ELSE IF c >= 97 /\ c <= 122 THEN c - 71
  ELSE IF c >= 48 /\ c <= 57 THEN c + 4
  ELSE IF c = 43 \/ c = 45 THEN 62
  ELSE IF c = 47 \/ c = 95 THEN 63
  ELSE -1

\* bytesToBase64 without the '=' padding of the last group.
bytesToBase64_Unpadded(bytes) ==
  LET n == Len(bytes)
      B(j) == IF j <= n THEN bytes[j] ELSE 0
  IN [i \in 1..((8 * n + 5) \div 6) |->
        LET g == (i - 1) \div 4
            p == (i - 1) % 4
            b0 == B(3 * g + 1)
            b1 == B(3 * g + 2)
            b2 == B(3 * g + 3)
        IN CASE p = 0 -> Base64Digit(b0 \div 4)
             [] p = 1 -> Base64Digit((b0 % 4) * 16 + b1 \div 16)
             [] p = 2 -> Base64Digit((b1 % 16) * 4 + b2 \div 64)
             [] OTHER -> Base64Digit(b2 % 64)]

\* bytesToBase64(bytes): Buffer.from(bytes).toString('base64') and btoa of the
\* binary string are the same standard, padded base64.
bytesToBase64(bytes) ==
  LET n == Len(bytes)
      B(j) == IF j <= n THEN bytes[j] ELSE 0
  IN [i \in 1..(4 * ((n + 2) \div 3)) |->
        LET g == (i - 1) \div 4
            p == (i - 1) % 4
            b0 == B(3 * g + 1)
            b1 == B(3 * g + 2)
            b2 == B(3 * g + 3)
        IN CASE p = 0 -> Base64Digit(b0 \div 4)
             [] p = 1 -> Base64Digit((b0 % 4) * 16 + b1 \div 16)
             [] p = 2 -> IF 3 * g + 2 > n THEN 61
                         ELSE Base64Digit((b1 % 16) * 4 + b2 \div 64)
             [] OTHER -> IF 3 * g + 3 > n THEN 61 ELSE Base64Digit(b2 % 64)]

\* The digits Buffer.from(text, 'base64') reads: up to the first '=', skipping
\* what is no base64 digit.
Base64Digits(text) ==
  LET pads == {i \in 1..Len(text) : text[i] = 61}
      stop == IF pads = {} THEN Len(text) + 1
              ELSE CHOOSE i \in pads : \A j \in pads : i <= j
      read == SelectSeq(SubSeq(text, 1, stop - 1), LAMBDA c : Base64Value(c) >= 0)
  IN [i \in 1..Len(read) |-> Base64Value(read[i])]

\* base64ToBytes(base64), Node branch: every 4 digits give 3 bytes, a trailing
\* 2 or 3 digits give 1 or 2.
base64ToBytes(text) ==
  LET d == Base64Digits(text)
      D(j) == IF j <= Len(d) THEN d[j] ELSE 0
  IN [i \in 1..((Len(d) * 6) \div 8) |->
        LET g == (i - 1) \div 3
            p == (i - 1) % 3
        IN CASE p = 0 -> D(4 * g + 1) * 4 + D(4 * g + 2) \div 16
             [] p = 1 -> (D(4 * g + 2) % 16) * 16 + D(4 * g + 3) \div 4
             [] OTHER -> (D(4 * g + 3) % 4) * 64 + D(4 * g + 4)]

\* -------------------------------------------------------- blake2b (library)

\* The weight of position i in the digest.
Weight(i) == ((i * 7919) % 8191) + 1

\* The weighted sum of bytes[lo..hi] modulo 16777213: at most eight terms are
\* added up directly, a longer range is the sum of its two halves.
RECURSIVE WeightedSum(_, _, _)
WeightedSum(bytes, lo, hi) ==
  IF hi - lo < 8 THEN
    LET T(j) == IF lo + j <= hi THEN (bytes[lo + j] + 1) * Weight(lo + j) ELSE 0
    IN (T(0) + T(1) + T(2) + T(3) + T(4) + T(5) + T(6) + T(7)) % 16777213
  ELSE
    LET mid == (lo + hi) \div 2
    IN (WeightedSum(bytes, lo, mid) + WeightedSum(bytes, mid + 1, hi)) % 16777213

\* blake2b(bytes, { dkLen }): a digest of dkLen bytes that depends on every
\* byte, on its position and on dkLen.
blake2b(bytes, dkLen) ==
  With(bytes, LAMBDA data :
    With((WeightedSum(data, 1, Len(data)) + 7919 * Len(data) + 104729 * dkLen)
           % 16777213, LAMBDA a :
      With(<<a % 256, (a \div 256) % 256, a \div 65536>>, LAMBDA w :
        [i \in 1..dkLen |->
           IF i <= 3 THEN w[i]
           ELSE (w[((i - 1) % 3) + 1] * i + w[(i % 3) + 1] + i) % 256])))

\* hashTx with the domain separator after the canonical bytes.
hashTx_TagLast(canonicalBytes) ==
  blake2b(canonicalBytes \o TextEncode(DOMAIN_SEPARATOR), HASH_LEN)

\* hashTx(canonicalBytes): blake2b-256 of the domain separator followed by the
\* canonical bytes.
hashTx(canonicalBytes) ==
  blake2b(TextEncode(DOMAIN_SEPARATOR) \o canonicalBytes, HASH_LEN)

\* ------------------------------------------------ Ed25519 (library, ideal)

\* The signing scalar a seed expands to.
Scalar(seed) == [i \in 1..Len(seed) |-> seed[i] % 128]

\* ed25519.getPublicKey(seed): the public point of the seed's scalar.
LibGetPublicKey(seed) == [i \in 1..Len(seed) |-> 2 * Scalar(seed)[i] + 1]

\* Whether 32 bytes encode a point of the curve.
ValidPoint(pub) == \A i \in 1..Len(pub) : pub[i] % 2 = 1

\* Byte i of the message as the signature binds it (every byte of the message
\* counts, whatever its length).
MsgByte(msg, i) ==
  IF Len(msg) = 0 THEN 0
  ELSE IF Len(msg) = HASH_LEN THEN msg[i]
  ELSE (msg[((i - 1) % Len(msg)) + 1] + Len(msg)) % 256

\* The one signature (R || S) of msg under scalar sc.
SignScalar(msg, sc) ==
  [i \in 1..SIGNATURE_LEN |->
     IF i <= 32 THEN (MsgByte(msg, i) + 3 * sc[i] + i) % 256
     ELSE (5 * MsgByte(msg, i - 32) + 7 * sc[i - 32] + 11) % 256]

\* ed25519.sign(message, seed)
LibSign(msg, seed) == SignScalar(msg, Scalar(seed))

\* ed25519.verify(signature, message, publicKey): "throw" when the public key
\* is no point of the curve, else whether the signature is the one that the
\* key's scalar gives.
LibVerify(sig, msg, pub) ==
  IF ~ValidPoint(pub) THEN "throw"
  ELSE IF sig = SignScalar(msg, [i \in 1..Len(pub) |-> (pub[i] - 1) \div 2])
  THEN "true" ELSE "false"

\* ------------------------------------------------- results of an operation

\* A call that returned v, having entered the sub-operations `steps` in order.
Ok(v, steps) == [ok |-> TRUE, val |-> v, err |-> "", steps |-> steps]

\* A call that threw the error e.
Throw(e, steps) == [ok |-> FALSE, val |-> <<>>, err |-> e, steps |-> steps]

\* The slot of an operation that has not been called.
NotCalled == [ok |-> FALSE, val |-> <<>>, err |-> "not called", steps |-> <<>>]

ERR_SEED32 == "Secret key must be 32 bytes"
ERR_KEY_32_64 == "Secret key must be 32 or 64 bytes"
ERR_KEY64 == "Secret key must be 64 bytes"
ERR_PUB32 == "Public key must be 32 bytes"
ERR_SIG64 == "Signature must be 64 bytes"
ERR_RAWKEY == "Private key must be 32 bytes (seed) or 64 bytes (seed || pubkey)"
ERR_MEMO == "Memo exceeds maximum length of 256 bytes"
ERR_HEX == "Invalid hex string length"

\* ----------------------------------------------------- crypto/ed25519.ts

\* getPublicKeySync(secretKey)
getPublicKeySync(secretKey) ==
  IF Len(secretKey) # SEED_LEN THEN Throw(ERR_SEED32, <<>>)
  ELSE Ok(LibGetPublicKey(secretKey), <<>>)

\* signSync that signs with the last 32 bytes of a 64-byte key.
signSync_LastHalf(message, secretKey) ==
  LET seed == IF Len(secretKey) = SECRET_KEY_LEN
              THEN SubSeq(secretKey, 33, 64) ELSE secretKey
  IN IF Len(seed) # SEED_LEN THEN Throw(ERR_KEY_32_64, <<>>)
     ELSE Ok(LibSign(message, seed), <<>>)

\* signSync(message, secretKey)
signSync(message, secretKey) ==
  LET seed == IF Len(secretKey) = SECRET_KEY_LEN
              THEN SubSeq(secretKey, 1, 32) ELSE secretKey
  IN IF Len(seed) # SEED_LEN THEN Throw(ERR_KEY_32_64, <<>>)
     ELSE Ok(LibSign(message, seed), <<>>)

\* verifySync without the try/catch around the library call.
verifySync_NoCatch(signature, message, publicKey) ==
  IF Len(publicKey) # PUBLIC_KEY_LEN THEN Throw(ERR_PUB32, <<>>)
  ELSE IF Len(signature) # SIGNATURE_LEN THEN Throw(ERR_SIG64, <<>>)
  ELSE IF LibVerify(signature, message, publicKey) = "throw"
  THEN Throw("bad point", <<>>)
  ELSE Ok(LibVerify(signature, message, publicKey) = "true", <<>>)

\* verifySync(signature, message, publicKey)
verifySync(signature, message, publicKey) ==
  IF Len(publicKey) # PUBLIC_KEY_LEN THEN Throw(ERR_PUB32, <<>>)
  ELSE IF Len(signature) # SIGNATURE_LEN THEN Throw(ERR_SIG64, <<>>)
  ELSE Ok(LibVerify(signature, message, publicKey) = "true", <<>>)

\* async sign(message, secretKey): the promise of signSync
sign(message, secretKey) == signSync(message, secretKey)

\* async verify that hands its arguments on in the order it got them.
verify_SameOrder(message, signature, publicKey) ==
  verifySync(message, signature, publicKey)

\* async verify(message, signature, publicKey): the promise of verifySync
verify(message, signature, publicKey) ==
  verifySync(signature, message, publicKey)

\* async getPublicKey(secretKey): the promise of getPublicKeySync
getPublicKey(secretKey) == getPublicKeySync(secretKey)

\* ----------------------------------------------------- crypto/canonical.ts

\* Whether string a sorts before string b (Array.prototype.sort's default
\* order: by code unit, a proper prefix first).
RECURSIVE StrLess(_, _)
StrLess(a, b) ==
  IF Len(b) = 0 THEN FALSE
  ELSE IF Len(a) = 0 THEN TRUE
  ELSE IF Head(a) # Head(b) THEN Head(a) < Head(b)
  ELSE StrLess(Tail(a), Tail(b))

\* The entry e inserted into the sorted entries es.
RECURSIVE InsertSorted(_, _)
InsertSorted(e, es) ==
  IF Len(es) = 0 THEN <<e>>
  ELSE IF StrLess(e[1], Head(es)[1]) THEN <<e>> \o es
  ELSE <<Head(es)>> \o InsertSorted(e, Tail(es))

\* Object.keys(tx) without the sort.
SortEntries_Unsorted(es) == es

\* The entries of an object in the order of Object.keys(tx).sort().
RECURSIVE SortEntries(_)
SortEntries(es) ==
  IF Len(es) = 0 THEN <<>> ELSE InsertSorted(Head(es), SortEntries(Tail(es)))

\* The decimal digits of a natural number.
RECURSIVE Digits(_)
Digits(n) == IF n < 10 THEN <<48 + n>> ELSE Digits(n \div 10) \o <<48 + (n % 10)>>

\* JSON.stringify of one character inside a string literal.
JsonChar(c) ==
  CASE c = 34 -> <<92, 34>>
    [] c = 92 -> <<92, 92>>
    [] c = 8 -> <<92, 98>>
    [] c = 9 -> <<92, 116>>
    [] c = 10 -> <<92, 110>>
    [] c = 12 -> <<92, 102>>
    [] c = 13 -> <<92, 114>>
    [] c < 32 -> <<92, 117, 48, 48, HexDigit(c \div 16), HexDigit(c % 16)>>
    [] OTHER -> <<c>>

\* JSON.stringify of a value that is a string or an integer.
JsonValue(v) ==
  IF v.t = "string"
  THEN <<34>>
       \o (IF \A i \in 1..Len(v.s) : JsonChar(v.s[i]) = <<v.s[i]>> THEN v.s
           ELSE Flatten([i \in 1..Len(v.s) |-> JsonChar(v.s[i])]))
       \o <<34>>
  ELSE IF v.n < 0 THEN <<45>> \o Digits(0 - v.n) ELSE Digits(v.n)

\* JSON.stringify of a flat object: {"k":v,"k":v} without whitespace.
JsonObject(es) ==
  <<123>>
  \o Flatten([i \in 1..Len(es) |->
       (IF i > 1 THEN <<44>> ELSE <<>>)
       \o JsonValue(Str(es[i][1])) \o <<58>> \o JsonValue(es[i][2])])
  \o <<125>>

\* canonicalJSON that omits every falsy value (if (value) ...).
canonicalJSON_DropsFalsy(tx) ==
  LET sorted == SortEntries(tx)
      canonical == SelectSeq(sorted, LAMBDA e : Truthy(e[2]))
  IN TextEncode(JsonObject(canonical))

\* canonicalJSON(tx): the keys sorted, undefined and null values omitted,
\* serialized without whitespace, as UTF-8.
canonicalJSON(tx) ==
  LET sorted == SortEntries(tx)
      canonical == SelectSeq(sorted, LAMBDA e : e[2].t \notin {"undefined", "null"})
  IN TextEncode(JsonObject(canonical))

\* estimateTxSize(tx)
estimateTxSize(tx) == Len(canonicalJSON(tx))

\* ------------------------------------------------------ wallet/tx.ts (Tx)

\* Tx.buildTransfer that measures the memo in characters (memo.length).
Tx_buildTransfer_CountsChars(params) ==
  IF Truthy(params.memo) /\ Len(params.memo.s) > MAX_MEMO_LENGTH
  THEN Throw(ERR_MEMO, <<>>)
  ELSE
    LET tx == << <<S_type, Str(S_transfer)>>,
                 <<S_from, params.from>>,
                 <<S_to, params.to>>,
                 <<S_amount, params.amount>>,
                 <<S_fee, params.fee>>,
                 <<S_nonce, params.nonce>> >>
    IN Ok(IF Truthy(params.memo) THEN Append(tx, <<S_memo, params.memo>>) ELSE tx,
          <<>>)

\* Tx.buildTransfer that cuts a long memo down to the limit.
Tx_buildTransfer_Truncates(params) ==
  LET memo == IF Len(params.memo.s) > MAX_MEMO_LENGTH
              THEN Str(SubSeq(params.memo.s, 1, MAX_MEMO_LENGTH)) ELSE params.memo
      tx == << <<S_type, Str(S_transfer)>>,
               <<S_from, params.from>>,
               <<S_to, params.to>>,
               <<S_amount, params.amount>>,
               <<S_fee, params.fee>>,
               <<S_nonce, params.nonce>> >>
  IN Ok(IF Truthy(memo) THEN Append(tx, <<S_memo, memo>>) ELSE tx, <<>>)

\* Tx.buildTransfer that sets the memo whenever one was supplied, the empty
\* string included.
Tx_buildTransfer_KeepsEmptyMemo(params) ==
  IF Truthy(params.memo)
     /\ Len(TextEncode(params.memo.s)) > MAX_MEMO_LENGTH
  THEN Throw(ERR_MEMO, <<>>)
  ELSE
    LET tx == << <<S_type, Str(S_transfer)>>,
                 <<S_from, params.from>>,
                 <<S_to, params.to>>,
                 <<S_amount, params.amount>>,
                 <<S_fee, params.fee>>,
                 <<S_nonce, params.nonce>> >>
    IN Ok(IF params.memo # Undefined THEN Append(tx, <<S_memo, params.memo>>) ELSE tx,
          <<>>)

\* Tx.buildTransfer(params)
Tx_buildTransfer(params) ==
  IF Truthy(params.memo)
     /\ Len(TextEncode(params.memo.s)) > MAX_MEMO_LENGTH
  THEN Throw(ERR_MEMO, <<>>)
  ELSE
    LET tx == << <<S_type, Str(S_transfer)>>,
                 <<S_from, params.from>>,
                 <<S_to, params.to>>,
                 <<S_amount, params.amount>>,
                 <<S_fee, params.fee>>,
                 <<S_nonce, params.nonce>> >>
    IN Ok(IF Truthy(params.memo) THEN Append(tx, <<S_memo, params.memo>>) ELSE tx,
          <<>>)

\* Tx.canonicalBytes(tx)
Tx_canonicalBytes(tx) == Ok(canonicalJSON(tx), <<"canonicalJSON">>)

\* Tx.hash(tx)
Tx_hash(tx) ==
  LET canonicalBytes == Tx_canonicalBytes(tx)
  IN Ok(hashTx(canonicalBytes.val),
        <<"Tx.canonicalBytes">> \o canonicalBytes.steps \o <<"hashTx">>)

\* The { sigHex, pubHex, hashHex } record that Tx.sign and Tx.signWithRawKey
\* return.
SigTriple(signature, publicKey, txHash) ==
  [sigHex |-> bytesToHex(signature),
   pubHex |-> bytesToHex(publicKey),
   hashHex |-> bytesToHex(txHash)]

\* Tx.sign that lets a 32-byte seed through to signSync.
Tx_sign_SeedToo(tx, secretKey) ==
  IF Len(secretKey) \notin {SEED_LEN, SECRET_KEY_LEN} THEN Throw(ERR_KEY64, <<>>)
  ELSE
    LET txHash == Tx_hash(tx)
        signature == signSync(txHash.val, secretKey)
        publicKey == IF Len(secretKey) = SECRET_KEY_LEN
                     THEN SubSeq(secretKey, 33, 64) ELSE <<>>
        steps == <<"Tx.hash">> \o txHash.steps \o <<"signSync">>
    IN IF ~signature.ok THEN Throw(signature.err, steps)
       ELSE Ok(SigTriple(signature.val, publicKey, txHash.val), steps)

\* Tx.sign that takes the first 32 bytes of the key for the public key.
Tx_sign_FirstHalfPublic(tx, secretKey) ==
  IF Len(secretKey) # SECRET_KEY_LEN THEN Throw(ERR_KEY64, <<>>)
  ELSE
    LET txHash == Tx_hash(tx)
        signature == signSync(txHash.val, secretKey)
        publicKey == SubSeq(secretKey, 1, 32)
        steps == <<"Tx.hash">> \o txHash.steps \o <<"signSync">>
    IN IF ~signature.ok THEN Throw(signature.err, steps)
       ELSE Ok(SigTriple(signature.val, publicKey, txHash.val), steps)

\* Tx.sign(tx, secretKey)
Tx_sign(tx, secretKey) ==
  IF Len(secretKey) # SECRET_KEY_LEN THEN Throw(ERR_KEY64, <<>>)
  ELSE
    LET txHash == Tx_hash(tx)
        signature == signSync(txHash.val, secretKey)
        publicKey == SubSeq(secretKey, 33, 64)
        steps == <<"Tx.hash">> \o txHash.steps \o <<"signSync">>
    IN IF ~signature.ok THEN Throw(signature.err, steps)
       ELSE Ok(SigTriple(signature.val, publicKey, txHash.val), steps)

\* Tx.signAsync(tx, secretKey): the promise of Tx.sign
Tx_signAsync(tx, secretKey) == Tx_sign(tx, secretKey)

\* The SignedTx record.
SignedTx(tx, pubkey, sig, hash) ==
  [tx |-> tx, pubkey |-> pubkey, sig |-> sig, hash |-> hash]

\* The v1.3.0 packaging with the two base64 strings in each other's field.
PackBase64_Swapped(tx, signed, name) ==
  IF ~signed.ok THEN Throw(signed.err, <<name>> \o signed.steps)
  ELSE
    LET sigBytes == hexToBytes(signed.val.sigHex)
        pubBytes == hexToBytes(signed.val.pubHex)
        steps == <<name>> \o signed.steps
                 \o <<"hexToBytes", "hexToBytes", "bytesToBase64", "bytesToBase64">>
    IN IF ~sigBytes.ok THEN Throw(sigBytes.err, steps)
       ELSE IF ~pubBytes.ok THEN Throw(pubBytes.err, steps)
       ELSE Ok(SignedTx(tx, bytesToBase64(sigBytes.val),
                        bytesToBase64(pubBytes.val), signed.val.hashHex), steps)

\* The v1.3.0 packaging of a signing result: pubkey and sig go from hex to
\* bytes to base64, hash stays hex.
PackBase64(tx, signed, name) ==
  IF ~signed.ok THEN Throw(signed.err, <<name>> \o signed.steps)
  ELSE
    LET sigBytes == hexToBytes(signed.val.sigHex)
        pubBytes == hexToBytes(signed.val.pubHex)
        steps == <<name>> \o signed.steps
                 \o <<"hexToBytes", "hexToBytes", "bytesToBase64", "bytesToBase64">>
    IN IF ~sigBytes.ok THEN Throw(sigBytes.err, steps)
       ELSE IF ~pubBytes.ok THEN Throw(pubBytes.err, steps)
       ELSE Ok(SignedTx(tx, bytesToBase64(pubBytes.val),
                        bytesToBase64(sigBytes.val), signed.val.hashHex), steps)

\* The v1.2 packaging of a signing result: the hex strings as they are.
PackHex(tx, signed, name) ==
  IF ~signed.ok THEN Throw(signed.err, <<name>> \o signed.steps)
  ELSE Ok(SignedTx(tx, signed.val.pubHex, signed.val.sigHex, signed.val.hashHex),
          <<name>> \o signed.steps)

\* Tx.createSigned(tx, secretKey), v1.3.0
Tx_createSigned(tx, secretKey) ==
  PackBase64(tx, Tx_sign(tx, secretKey), "Tx.sign")

\* Tx.createSignedAsync(tx, secretKey), v1.3.0: the promise of Tx.createSigned
Tx_createSignedAsync(tx, secretKey) == Tx_createSigned(tx, secretKey)

\* Tx.signWithRawKey that hashes the transaction before it looks at the key.
Tx_signWithRawKey_HashFirst(tx, privateKey) ==
  LET txHash == Tx_hash(tx) IN
  IF Len(privateKey) \notin {SEED_LEN, SECRET_KEY_LEN}
  THEN Throw(ERR_RAWKEY, <<"Tx.hash">> \o txHash.steps)
  ELSE
    LET publicKey == IF Len(privateKey) = SEED_LEN
                     THEN getPublicKeySync(privateKey).val
                     ELSE SubSeq(privateKey, 33, 64)
        signature == signSync(txHash.val, SubSeq(privateKey, 1, 32) \o publicKey)
    IN Ok(SigTriple(signature.val, publicKey, txHash.val),
          <<"Tx.hash">> \o txHash.steps \o <<"getPublicKeySync", "signSync">>)

\* Tx.signWithRawKey(tx, privateKey)
Tx_signWithRawKey(tx, privateKey) ==
  IF Len(privateKey) \notin {SEED_LEN, SECRET_KEY_LEN} THEN Throw(ERR_RAWKEY, <<>>)
  ELSE
    LET derived == IF Len(privateKey) = SEED_LEN
                   THEN getPublicKeySync(privateKey) ELSE NotCalled
        publicKey == IF Len(privateKey) = SEED_LEN THEN derived.val
                     ELSE SubSeq(privateKey, 33, 64)
        secretKey == IF Len(privateKey) = SEED_LEN
                     THEN privateKey \o publicKey ELSE privateKey
        txHash == Tx_hash(tx)
        signature == signSync(txHash.val, secretKey)
        steps == (IF Len(privateKey) = SEED_LEN THEN <<"getPublicKeySync">> ELSE <<>>)
                 \o <<"Tx.hash">> \o txHash.steps \o <<"signSync">>
    IN IF Len(privateKey) = SEED_LEN /\ ~derived.ok
       THEN Throw(derived.err, <<"getPublicKeySync">>)
       ELSE IF ~signature.ok THEN Throw(signature.err, steps)
       ELSE Ok(SigTriple(signature.val, publicKey, txHash.val), steps)

\* Tx.createSignedFromRawKey that was left on the hex encoding.
Tx_createSignedFromRawKey_LeftHex(tx, privateKey) ==
  PackHex(tx, Tx_signWithRawKey(tx, privateKey), "Tx.signWithRawKey")

\* Tx.createSignedFromRawKey(tx, privateKey), v1.3.0
Tx_createSignedFromRawKey(tx, privateKey) ==
  PackBase64(tx, Tx_signWithRawKey(tx, privateKey), "Tx.signWithRawKey")

\* Tx.signWithHexKey(tx, hexPrivateKey)
Tx_signWithHexKey(tx, hexPrivateKey) ==
  LET privateKey == hexToBytes(hexPrivateKey)
  IN IF ~privateKey.ok THEN Throw(privateKey.err, <<"hexToBytes">>)
     ELSE LET signed == Tx_signWithRawKey(tx, privateKey.val)
          IN [signed EXCEPT !.steps = <<"hexToBytes", "Tx.signWithRawKey">> \o @]

\* Tx.createSignedFromHexKey(tx, hexPrivateKey), v1.3.0
Tx_createSignedFromHexKey(tx, hexPrivateKey) ==
  LET privateKey == hexToBytes(hexPrivateKey)
  IN IF ~privateKey.ok THEN Throw(privateKey.err, <<"hexToBytes">>)
     ELSE LET signed == Tx_createSignedFromRawKey(tx, privateKey.val)
          IN [signed EXCEPT !.steps = <<"hexToBytes", "Tx.createSignedFromRawKey">> \o @]

\* Tx.base64ToHex(base64Sig)
Tx_base64ToHex(base64Sig) == bytesToHex(base64ToBytes(base64Sig))

\* Tx.estimateSize(tx)
Tx_estimateSize(tx) == estimateTxSize(tx)

\* ------------------------------------------- wallet/tx.ts, v1.2 (hex wire)

\* Tx.createSigned(tx, secretKey), v1.2
Tx12_createSigned(tx, secretKey) == PackHex(tx, Tx_sign(tx, secretKey), "Tx.sign")

\* Tx.createSignedFromRawKey(tx, privateKey), v1.2
Tx12_createSignedFromRawKey(tx, privateKey) ==
  PackHex(tx, Tx_signWithRawKey(tx, privateKey), "Tx.signWithRawKey")

\* Tx.createSignedFromHexKey(tx, hexPrivateKey), v1.2
Tx12_createSignedFromHexKey(tx, hexPrivateKey) ==
  LET privateKey == hexToBytes(hexPrivateKey)
  IN IF ~privateKey.ok THEN Throw(privateKey.err, <<"hexToBytes">>)
     ELSE LET signed == Tx12_createSignedFromRawKey(tx, privateKey.val)
          IN [signed EXCEPT !.steps = <<"hexToBytes", "Tx.createSignedFromRawKey">> \o @]

\* ------------------------------------------------------------------ inputs

\* Two signing seeds.
SeedA == [i \in 1..32 |-> (11 * i + 3) % 256]
SeedB == [i \in 1..32 |-> (200 + 5 * i) % 256]

\* The 64-byte secret key record of a seed: seed || publicKey.
SecretKeyOf(seed) == seed \o LibGetPublicKey(seed)

\* Key lengths that are neither 32 nor 64.
BadKeyLengths == {0, 16, 31, 33, 63, 65}

\* A 64-byte key whose last 32 bytes are the public key of another seed.
MismatchedKey == SeedA \o LibGetPublicKey(SeedB)

\* The keys a caller holds: well-formed 64-byte records, a 64-byte key whose
\* public half belongs to another seed, and buffers of a wrong length.
Keys ==
  {SecretKeyOf(SeedA), SecretKeyOf(SeedB), MismatchedKey}
  \cup {Repeat(1, n) : n \in BadKeyLengths}

\* How a call passes the key it holds: whole, or only its first 32 bytes
\* (secretKey.slice(0, 32)).
Forms == {"key", "seed"}

KeyArg(k, form) ==
  IF form = "seed" THEN SubSeq(k, 1, IF Len(k) < 32 THEN Len(k) ELSE 32) ELSE k

ADDR_FROM == <<97, 114, 99, 118, 49, 116, 101, 115, 116, 48>>
ADDR_TO == <<97, 114, 99, 118, 49, 116, 101, 115, 116, 49>>

\* Memos around the limit: absent, empty, short, 256 and 257 one-byte
\* characters, 128 and 129 two-byte characters.
Memos ==
  {Undefined, Str(<<>>), Str(<<84, 101, 115, 116, 32, 109, 101, 109, 111>>),
   Str(Repeat(97, MAX_MEMO_LENGTH)), Str(Repeat(97, MAX_MEMO_LENGTH + 1)),
   Str(Repeat(233, MAX_MEMO_LENGTH \div 2)),
   Str(Repeat(233, MAX_MEMO_LENGTH \div 2 + 1))}

\* The parameter records passed to Tx.buildTransfer.
Params ==
  {[from |-> Str(ADDR_FROM), to |-> Str(ADDR_TO), amount |-> Str(<<49, 48, 48, 48>>),
    fee |-> Str(<<49, 48, 48>>), nonce |-> Str(<<48>>), memo |-> m] : m \in Memos}

\* The body the tests write as an object literal.
TestTx ==
  << <<S_type, Str(S_transfer)>>, <<S_from, Str(ADDR_FROM)>>, <<S_to, Str(ADDR_TO)>>,
     <<S_amount, Str(<<49, 48, 48, 48>>)>>, <<S_fee, Str(<<49, 48, 48>>)>>,
     <<S_nonce, Str(<<48>>)>> >>

\* Bodies written as object literals, without Tx.buildTransfer: the tests'
\* body, and the same with a memo of 257 bytes.
DirectTxs ==
  {TestTx,
   Append(TestTx, <<S_memo, Str(Repeat(97, MAX_MEMO_LENGTH + 1))>>)}

\* No body: Tx.buildTransfer threw.
NoTx == <<>>
NoParams == [from |-> Undefined, to |-> Undefined, amount |-> Undefined,
             fee |-> Undefined, nonce |-> Undefined, memo |-> Undefined]

\* The memo of a body, or Undefined.
MemoOf(t) ==
  LET hits == SelectSeq(t, LAMBDA e : e[1] = S_memo)
  IN IF Len(hits) = 0 THEN Undefined ELSE hits[1][2]

\* The operations that take the body and a key, those that take the body
\* alone, and the slots that record their calls.
KeyOps ==
  {"Tx.sign", "Tx.createSigned", "Tx.createSignedAsync", "Tx.signWithRawKey",
   "Tx.createSignedFromRawKey", "Tx.signWithHexKey", "Tx.createSignedFromHexKey",
   "signSync", "Tx12.createSignedFromRawKey"}
TxOps == {"Tx.canonicalBytes", "Tx.hash"}

\* The operations that the model also calls with the first 32 bytes alone.
SeedOps ==
  {"Tx.sign", "Tx.createSigned", "Tx.signWithRawKey", "Tx.createSignedFromRawKey",
   "Tx12.createSignedFromRawKey"}
FormsOf(op) == IF op \in SeedOps THEN Forms ELSE {"key"}
Slots == {s \in (KeyOps \cup TxOps) \X Forms : s[2] \in FormsOf(s[1])}

\* How a verification call changes the signing result it is given.
VerifyModes == {"asis", "shortSig", "shortPub", "otherPub", "noPoint"}

NotVerified == [slot |-> <<"", "">>, mode |-> "", async |-> FALSE, res |-> NotCalled]

\* ------------------------------------------------------------------- state

VARIABLES
  params,    \* the parameters of the last Tx.buildTransfer call, or NoParams
  built,     \* the result of that call, or NotCalled
  tx,        \* the body at hand, or NoTx
  key,       \* the key at hand
  results,   \* the result of every operation called on (tx, key) so far
  verified,  \* the last verification of a signing result
  canon,     \* two bodies and their canonical bytes
  deriv,     \* a mnemonic or seed and what was derived from it
  addr,      \* a public key or address text and what was made of it
  twice,     \* an operation called twice on the same arguments
  rng,       \* the bytes the random source hands out next
  wrap,      \* a synchronous operation and its asynchronous wrapper on the same arguments
  hexkey,    \* a hex text, what was decoded or signed from it, and the same from the bytes
  inflight,  \* the signing calls in flight, each with its caller's objects and its locals
  client,    \* the RpcClient that was constructed, or NoClient
  requests,  \* the method calls in flight on the client, each with its timer and controller
  pair       \* two parameter records and the bodies, canonical bytes and hashes built from them

\* The variables of the signing calls, and those of the other components.
signing == <<params, built, tx, key, results, verified>>

\* The variables of the components that follow.
later == <<twice, rng, wrap, hexkey, inflight, client, requests, pair>>
allBut_twice == <<signing, canon, deriv, addr, wrap, hexkey, inflight, client, requests, pair>>
allBut_wrap == <<signing, canon, deriv, addr, twice, rng, hexkey, inflight, client, requests, pair>>
allBut_hexkey == <<signing, canon, deriv, addr, twice, rng, wrap, inflight, client, requests, pair>>
allBut_conc == <<signing, canon, deriv, addr, twice, rng, wrap, hexkey, client, requests, pair>>
allBut_rpc == <<signing, canon, deriv, addr, twice, rng, wrap, hexkey, inflight, pair>>
allBut_build == <<signing, canon, deriv, addr, twice, rng, wrap, hexkey, inflight, client, requests>>

others == <<canon, deriv, addr, later>>

vars == <<params, built, tx, key, results, verified, canon, deriv, addr, twice, rng, wrap, hexkey, inflight, client, requests, pair>>

\* No bodies are being compared.
NoCanon == [pick |-> "", a |-> NoTx, b |-> NoTx, ra |-> NotCalled, rb |-> NotCalled]

\* Nothing is being derived.
\* The arguments of a derivation operation.
DerivInput(strength, entropy, mnemonic, passphrase, seed) ==
  [strength |-> strength, entropy |-> entropy, mnemonic |-> mnemonic,
   passphrase |-> passphrase, seed |-> seed]

NoInput == DerivInput(0, <<>>, <<>>, <<>>, <<>>)

NoDeriv == [op |-> "", input |-> NoInput, res |-> NotCalled]

\* No address is being made or parsed.
\* The arguments of an address operation; publicKey is also the key whose
\* address the text is, when the text was made from a key.
AddrInput(publicKey, text) == [publicKey |-> publicKey, text |-> text]

NoAddr == [op |-> "", input |-> AddrInput(<<>>, <<>>), res |-> NotCalled]

\* The arguments of a call that is repeated.
TwiceInput(t, k, mnemonic, passphrase) ==
  [tx |-> t, key |-> k, mnemonic |-> mnemonic, passphrase |-> passphrase]

NoTwice == [op |-> "", input |-> TwiceInput(NoTx, <<>>, <<>>, <<>>),
            first |-> NotCalled, second |-> NotCalled, drawn |-> FALSE]

\* The arguments of a call that is made through both entry points.
WrapInput(t, k, mnemonic, passphrase, message, signature) ==
  [tx |-> t, key |-> k, mnemonic |-> mnemonic, passphrase |-> passphrase,
   message |-> message, signature |-> signature]

\* promise: "none" before the wrapper is called, "pending" once it returned
\* its promise, "settled" once the promise was awaited.
NoWrap == [op |-> "", input |-> WrapInput(NoTx, <<>>, <<>>, <<>>, <<>>, <<>>),
           sync |-> NotCalled, promise |-> "none", outcome |-> NotCalled,
           awaited |-> NotCalled]

\* text is the hex text; bytes is the key it was written from, or <<>> when it
\* was not written from a key.
NoHexKey == [op |-> "", tx |-> NoTx, bytes |-> <<>>, text |-> <<>>, like |-> "",
             hex |-> NotCalled, raw |-> NotCalled]

\* A signing call that has not been made: the caller's body object and key
\* buffer, what they held when the call was made, the buffer the call makes
\* for itself, whether its secretKey is the caller's buffer itself, its
\* locals, and what it returned.
IdleCall ==
  [op |-> "", pc |-> "idle", txObject |-> NoTx, keyBuffer |-> <<>>,
   passed |-> [tx |-> NoTx, key |-> <<>>], newBuffer |-> <<>>, aliased |-> FALSE,
   publicKey |-> <<>>, txHash |-> <<>>, signature |-> <<>>, res |-> NotCalled,
   overlapped |-> FALSE]
NoCallsInFlight == [i \in 1..MaxInFlight |-> IdleCall]

\* No RpcClient has been constructed.
NoClient == [made |-> FALSE, baseUrl |-> <<>>, timeout |-> 0]

\* No response, and a method call that has not been made: the HTTP requests
\* it sent, its timer and the delay of the timer, the state of its abort
\* controller, what the server replied, the Response that fetch resolved
\* with, whether the body was parsed, how the call ended, and whether its
\* timer fired after that.
NoReply == [status |-> 0, statusText |-> <<>>, json |-> FALSE, value |-> <<>>]
NoResponse == [ok |-> FALSE, status |-> 0, statusText |-> <<>>, json |-> FALSE, value |-> <<>>]
IdleRequest ==
  [method |-> "", arg |-> Undefined, pc |-> "idle", sent |-> <<>>, timer |-> "none",
   delay |-> 0, aborted |-> FALSE, reply |-> NoReply, response |-> NoResponse,
   parsed |-> FALSE, res |-> NotCalled, late |-> FALSE]
NoRequests == [i \in 1..MaxInFlight |-> IdleRequest]

\* No parameter records are being compared.
NoPair == [p |-> NoParams, q |-> NoParams, stage |-> "",
           built |-> <<NotCalled, NotCalled>>, bytes |-> <<NotCalled, NotCalled>>,
           hash |-> <<NotCalled, NotCalled>>]

NoResults == [s \in Slots |-> NotCalled]

Called == {s \in Slots : results[s] # NotCalled}

NumCalls == Cardinality(Called) + (IF verified = NotVerified THEN 0 ELSE 1)

\* Nothing has been called on the inputs at hand.
Fresh == Called = {} /\ verified = NotVerified

Init ==
  /\ params = NoParams
  /\ built = NotCalled
  /\ tx = TestTx
  /\ key = SecretKeyOf(SeedA)
  /\ results = NoResults
  /\ verified = NotVerified
  /\ canon = NoCanon
  /\ deriv = NoDeriv
  /\ addr = NoAddr
  /\ twice = NoTwice
  /\ rng = Repeat(0, 32)
  /\ wrap = NoWrap
  /\ hexkey = NoHexKey
  /\ inflight = NoCallsInFlight
  /\ client = NoClient
  /\ requests = NoRequests
  /\ pair = NoPair

\* const tx = Tx.buildTransfer(p): a thrown error leaves no body.
BuildTransfer ==
  \E p \in Params :
    /\ Fresh
    /\ params' = p
    /\ built' = Tx_buildTransfer(p)
    /\ tx' = IF built'.ok THEN built'.val ELSE NoTx
    /\ results' = NoResults
    /\ verified' = NotVerified
    /\ UNCHANGED <<key, others>>

\* const tx: TxBody = { ... }
ConstructTx ==
  \E t \in DirectTxs :
    /\ Fresh
    /\ tx' = t
    /\ params' = NoParams
    /\ built' = NotCalled
    /\ results' = NoResults
    /\ verified' = NotVerified
    /\ UNCHANGED <<key, others>>

\* Another key is taken in hand.
ChooseKey ==
  \E k \in Keys :
    /\ Fresh
    /\ k # key
    /\ key' = k
    /\ results' = NoResults
    /\ verified' = NotVerified
    /\ UNCHANGED <<params, built, tx, others>>

\* The results are dropped; the inputs stay.
StartOver ==
  /\ ~Fresh
  /\ results' = NoResults
  /\ verified' = NotVerified
  /\ UNCHANGED <<params, built, tx, key, others>>

\* The call recorded in `slot` returns or throws r.
Call(slot, r) ==
  /\ tx # NoTx
  /\ results[slot] = NotCalled
  /\ NumCalls < MaxCalls
  /\ results' = [results EXCEPT ![slot] = r]
  /\ UNCHANGED <<params, built, tx, key, verified, others>>

CallCanonicalBytes == Call(<<"Tx.canonicalBytes", "key">>, Tx_canonicalBytes(tx))

CallHash == Call(<<"Tx.hash", "key">>, Tx_hash(tx))

CallSign ==
  \E f \in FormsOf("Tx.sign") : Call(<<"Tx.sign", f>>, Tx_sign(tx, KeyArg(key, f)))

CallCreateSigned ==
  \E f \in FormsOf("Tx.createSigned") :
    Call(<<"Tx.createSigned", f>>, Tx_createSigned(tx, KeyArg(key, f)))

CallCreateSignedAsync ==
  \E f \in FormsOf("Tx.createSignedAsync") :
    Call(<<"Tx.createSignedAsync", f>>, Tx_createSignedAsync(tx, KeyArg(key, f)))

CallSignWithRawKey ==
  \E f \in FormsOf("Tx.signWithRawKey") :
    Call(<<"Tx.signWithRawKey", f>>, Tx_signWithRawKey(tx, KeyArg(key, f)))

CallCreateSignedFromRawKey ==
  \E f \in FormsOf("Tx.createSignedFromRawKey") :
    Call(<<"Tx.createSignedFromRawKey", f>>,
         Tx_createSignedFromRawKey(tx, KeyArg(key, f)))

CallSignWithHexKey ==
  \E f \in FormsOf("Tx.signWithHexKey") :
    Call(<<"Tx.signWithHexKey", f>>,
         Tx_signWithHexKey(tx, bytesToHex(KeyArg(key, f))))

CallCreateSignedFromHexKey ==
  \E f \in FormsOf("Tx.createSignedFromHexKey") :
    Call(<<"Tx.createSignedFromHexKey", f>>,
         Tx_createSignedFromHexKey(tx, bytesToHex(KeyArg(key, f))))

\* signSync(Tx.hash(tx), key)
CallSignSync ==
  \E f \in FormsOf("signSync") :
    Call(<<"signSync", f>>, signSync(Tx_hash(tx).val, KeyArg(key, f)))

\* Tx.createSignedFromRawKey of the v1.2 class
CallCreateSignedFromRawKey12 ==
  \E f \in FormsOf("Tx12.createSignedFromRawKey") :
    Call(<<"Tx12.createSignedFromRawKey", f>>,
         Tx12_createSignedFromRawKey(tx, KeyArg(key, f)))

\* The slots that hold a { sigHex, pubHex, hashHex } record.
TripleSlots == {s \in Slots : s[1] \in {"Tx.sign", "Tx.signWithRawKey"}}

\* The signature a verification call is given.
VerifySig(triple, mode) ==
  LET sig == hexToBytes(triple.sigHex).val
  IN IF mode = "shortSig" THEN SubSeq(sig, 1, Len(sig) - 1) ELSE sig

\* The public key a verification call is given.
VerifyPub(triple, mode) ==
  LET pub == hexToBytes(triple.pubHex).val
  IN CASE mode = "shortPub" -> SubSeq(pub, 1, Len(pub) - 1)
       [] mode = "otherPub" -> [pub EXCEPT ![1] = (@ + 2) % 256]
       [] mode = "noPoint" -> [pub EXCEPT ![1] = (@ + 1) % 256]
       [] OTHER -> pub

\* verifySync(hexToBytes(sigHex), hexToBytes(hashHex), hexToBytes(pubHex)) on
\* a signing result, or the async verify(message, signature, publicKey).
CallVerify ==
  \E s \in TripleSlots, m \in VerifyModes, a \in BOOLEAN :
    /\ results[s].ok
    /\ verified = NotVerified
    /\ NumCalls < MaxCalls
    /\ LET t == results[s].val
           sig == VerifySig(t, m)
           pub == VerifyPub(t, m)
           msg == hexToBytes(t.hashHex).val
       IN verified' = [slot |-> s, mode |-> m, async |-> a,
                       res |-> IF a THEN verify(msg, sig, pub)
                               ELSE verifySync(sig, msg, pub)]
    /\ UNCHANGED <<params, built, tx, key, results, others>>

Next ==
  \/ BuildTransfer
  \/ ConstructTx
  \/ ChooseKey
  \/ StartOver
  \/ CallCanonicalBytes
  \/ CallHash
  \/ CallSign
  \/ CallCreateSigned
  \/ CallCreateSignedAsync
  \/ CallSignWithRawKey
  \/ CallCreateSignedFromRawKey
  \/ CallSignWithHexKey
  \/ CallCreateSignedFromHexKey
  \/ CallSignSync
  \/ CallCreateSignedFromRawKey12
  \/ CallVerify

Spec == Init /\ [][Next]_vars

\* ------------------------------------------ canonical bytes of two bodies

\* The JavaScript value null.
Null == [t |-> "null", s |-> <<>>, n |-> 0]

\* The value of property k of a body, or Undefined.
FieldOf(t, k) ==
  LET hits == SelectSeq(t, LAMBDA e : e[1] = k)
  IN IF Len(hits) = 0 THEN Undefined ELSE hits[1][2]

\* The body t with property k set to v (a new property goes last).
SetField(t, k, v) ==
  IF \E i \in 1..Len(t) : t[i][1] = k
  THEN [i \in 1..Len(t) |-> IF t[i][1] = k THEN <<k, v>> ELSE t[i]]
  ELSE Append(t, <<k, v>>)

\* The properties of t written in the order p: property i is t's property p[i].
Reorder(t, p) == [i \in 1..Len(t) |-> t[p[i]]]

\* The tests' body with a memo.
MemoTx == SetField(TestTx, S_memo, Str(<<84, 101, 115, 116, 32, 109, 101, 109, 111>>))

\* Bodies that differ from one another in one field or in the memo being there,
\* and bodies whose memo property is there but undefined or null.
CanonBodies ==
  {TestTx, MemoTx,
   SetField(TestTx, S_memo, Str(<<>>)),
   SetField(TestTx, S_memo, Str(<<97, 34, 44, 34, 98>>)),
   SetField(TestTx, S_memo, Undefined),
   SetField(TestTx, S_memo, Null),
   SetField(TestTx, S_amount, Str(<<49, 48, 48, 49>>)),
   SetField(TestTx, S_fee, Str(<<49, 48, 49>>)),
   SetField(TestTx, S_nonce, Str(<<49>>)),
   SetField(TestTx, S_from, Str(ADDR_TO)),
   SetField(TestTx, S_to, Str(ADDR_FROM)),
   SetField(MemoTx, S_nonce, Str(<<49>>))}

\* The orders in which the properties of a body are written: every order for
\* the body with a memo, the rotations and the reverse for the others.
Orders(t) ==
  IF t = MemoTx THEN Permutations(1..Len(t))
  ELSE {[i \in 1..Len(t) |-> ((i + k - 1) % Len(t)) + 1] : k \in 0..(Len(t) - 1)}
       \cup {[i \in 1..Len(t) |-> Len(t) + 1 - i]}

\* Parameters as test-send.js passes them: amount, fee and nonce as numbers,
\* all three or one of them.
NumberParams ==
  LET p == [from |-> Str(ADDR_FROM), to |-> Str(ADDR_TO),
            amount |-> Num(100000000), fee |-> Num(100000), nonce |-> Num(7),
            memo |-> Undefined]
  IN {p,
      [p EXCEPT !.nonce = Num(0)],
      [p EXCEPT !.fee = Str(Digits(100000)), !.nonce = Str(Digits(7))],
      [p EXCEPT !.amount = Str(Digits(100000000)), !.nonce = Str(Digits(7))],
      [p EXCEPT !.amount = Str(Digits(100000000)), !.fee = Str(Digits(100000))]}

\* String(v) of a parameter.
ToStr(v) == IF v.t = "number" THEN Str(Digits(v.n)) ELSE v

\* The parameters with amount, fee and nonce as decimal strings.
StringParams(p) ==
  [p EXCEPT !.amount = ToStr(@), !.fee = ToStr(@), !.nonce = ToStr(@)]

\* const a = {...}; const b = { the same properties in another order }
CanonReorder ==
  \E t \in CanonBodies :
    \E p \in Orders(t) :
      /\ canon = NoCanon
      /\ canon' = [NoCanon EXCEPT !.pick = "reorder", !.a = t, !.b = Reorder(t, p)]
      /\ UNCHANGED <<signing, deriv, addr, later>>

\* const a = {...}; const b = {...}: two bodies of the list.
CanonVary ==
  \E x \in CanonBodies, y \in CanonBodies :
    /\ canon = NoCanon
    /\ x # y
    /\ canon' = [NoCanon EXCEPT !.pick = "vary", !.a = x, !.b = y]
    /\ UNCHANGED <<signing, deriv, addr, later>>

\* const a = Tx.buildTransfer({ amount: 100000000, ... }); b is built from the
\* same parameters as strings.
CanonBuild ==
  \E p \in NumberParams :
    /\ canon = NoCanon
    /\ canon' = [NoCanon EXCEPT !.pick = "build",
                                !.a = Tx_buildTransfer(p).val,
                                !.b = Tx_buildTransfer(StringParams(p)).val]
    /\ UNCHANGED <<signing, deriv, addr, later>>

\* Tx.canonicalBytes(a)
CanonBytesA ==
  /\ canon # NoCanon
  /\ canon.ra = NotCalled
  /\ canon' = [canon EXCEPT !.ra = Tx_canonicalBytes(canon.a)]
  /\ UNCHANGED <<signing, deriv, addr, later>>

\* Tx.canonicalBytes(b)
CanonBytesB ==
  /\ canon # NoCanon
  /\ canon.rb = NotCalled
  /\ canon' = [canon EXCEPT !.rb = Tx_canonicalBytes(canon.b)]
  /\ UNCHANGED <<signing, deriv, addr, later>>

\* Both are done; other bodies are taken next.
CanonDone ==
  /\ canon.ra # NotCalled
  /\ canon.rb # NotCalled
  /\ canon' = NoCanon
  /\ UNCHANGED <<signing, deriv, addr, later>>

CanonNext ==
  \/ CanonReorder
  \/ CanonVary
  \/ CanonBuild
  \/ CanonBytesA
  \/ CanonBytesB
  \/ CanonDone

CanonSpec == Init /\ [][CanonNext]_vars

\* ------------------------------------------------- digests (libraries)

\* sha256, hmac(sha512, key, message) and PBKDF2-HMAC-SHA512 of the libraries:
\* digests of 32, 64 and 64 bytes that depend on every byte of their inputs
\* and are unrelated to one another.
sha256(bytes) == blake2b(<<1, Len(bytes) % 256>> \o bytes, 32)

hmacSha512(hmacKey, message) ==
  blake2b(<<2, Len(hmacKey) % 256>> \o hmacKey \o message, 64)

pbkdf2Sha512(password, salt) ==
  blake2b(<<3, Len(password) % 256>> \o password \o salt, 64)

\* ----------------------------------------------------------- bip39 (library)
\* A mnemonic is the sequence of its words; a word is its index in the word
\* list of 2048 words, and NotAWord stands for a word that is not in the list.

NotAWord == 2048

\* The bits of the number n, most significant first, on `width` bits.
ToBits(n, width) == [i \in 1..width |-> (n \div (2 ^ (width - i))) % 2]

\* The number with the bits bs, most significant first.
RECURSIVE FromBits(_)
FromBits(bs) ==
  IF Len(bs) = 0 THEN 0 ELSE 2 * FromBits(SubSeq(bs, 1, Len(bs) - 1)) + bs[Len(bs)]

\* bytesToBinary(bytes): eight bits per byte.
BytesToBits(bytes) ==
  [i \in 1..(8 * Len(bytes)) |-> (bytes[((i - 1) \div 8) + 1] \div (2 ^ (7 - ((i - 1) % 8)))) % 2]

\* deriveChecksumBits(entropy): the first ENT / 32 bits of sha256(entropy).
deriveChecksumBits(entropy) ==
  SubSeq(BytesToBits(sha256(entropy)), 1, (8 * Len(entropy)) \div 32)

\* bip39.entropyToMnemonic(entropy): the entropy and checksum bits in groups of
\* eleven.
entropyToMnemonic(entropy) ==
  LET bits == BytesToBits(entropy) \o deriveChecksumBits(entropy)
  IN [i \in 1..(Len(bits) \div 11) |-> FromBits(SubSeq(bits, 11 * i - 10, 11 * i))]

\* bip39.mnemonicToEntropy(mnemonic) returns rather than throws: the number of
\* words is a multiple of three, every word is in the list, the entropy has 16
\* to 32 bytes in steps of four, and the checksum bits are those of the
\* entropy.
MnemonicToEntropyReturns(mnemonic) ==
  /\ Len(mnemonic) % 3 = 0
  /\ \A i \in 1..Len(mnemonic) : mnemonic[i] # NotAWord
  /\ LET bits == Flatten([i \in 1..Len(mnemonic) |-> ToBits(mnemonic[i], 11)])
         dividerIndex == (Len(bits) \div 33) * 32
         entropyBits == SubSeq(bits, 1, dividerIndex)
         checksumBits == SubSeq(bits, dividerIndex + 1, Len(bits))
         entropy == [i \in 1..(dividerIndex \div 8) |->
                       FromBits(SubSeq(entropyBits, 8 * i - 7, 8 * i))]
     IN /\ Len(entropy) >= 16
        /\ Len(entropy) <= 32
        /\ Len(entropy) % 4 = 0
        /\ deriveChecksumBits(entropy) = checksumBits

\* The UTF-8 bytes of a mnemonic (two bytes stand for a word, 32 for the space).
MnemonicBytes(mnemonic) ==
  Flatten([i \in 1..Len(mnemonic) |->
    (IF i > 1 THEN <<32>> ELSE <<>>) \o <<mnemonic[i] \div 256, mnemonic[i] % 256>>])

\* bip39.mnemonicToSeedSync(mnemonic, passphrase): PBKDF2 of the mnemonic with
\* the salt "mnemonic" + passphrase; it does not validate.
mnemonicToSeedSync(mnemonic, passphrase) ==
  pbkdf2Sha512(MnemonicBytes(mnemonic),
               <<109, 110, 101, 109, 111, 110, 105, 99>> \o TextEncode(passphrase))

\* ---------------------------------------------------------- bech32 (library)

\* 'qpzry9x8gf2tvdw0s3jn54khce6mua7l'
ALPHABET ==
  <<113, 112, 122, 114, 121, 57, 120, 56, 103, 102, 50, 116, 118, 100, 119, 48,
    115, 51, 106, 110, 53, 52, 107, 104, 99, 101, 54, 109, 117, 97, 55, 108>>

\* ALPHABET_MAP[c]: the value of a character, or -1 (undefined).
AlphabetValue(c) ==
  IF \E i \in 1..32 : ALPHABET[i] = c
  THEN (CHOOSE i \in 1..32 : ALPHABET[i] = c) - 1
  ELSE -1

\* Bit i of n.
Bit(n, i) == (n \div (2 ^ i)) % 2

\* Bits lo .. lo + 5 of the exclusive or of the numbers v[1] .. v[6].
XorRow(v, lo) ==
  LET P(i) == ((Bit(v[1], i) + Bit(v[2], i) + Bit(v[3], i)
                + Bit(v[4], i) + Bit(v[5], i) + Bit(v[6], i)) % 2) * (2 ^ i)
  IN P(lo) + P(lo + 1) + P(lo + 2) + P(lo + 3) + P(lo + 4) + P(lo + 5)

\* The exclusive or (^) of six numbers below 2^30.
Xor6(v) == XorRow(v, 0) + XorRow(v, 6) + XorRow(v, 12) + XorRow(v, 18) + XorRow(v, 24)

\* a ^ b
Xor(a, b) == Xor6(<<a, b, 0, 0, 0, 0>>)

\* polymodStep(pre)
polymodStep(pre) ==
  LET b == pre \div 33554432
      G(i, g) == IF Bit(b, i) = 1 THEN g ELSE 0
  IN Xor6(<<(pre % 33554432) * 32, G(0, 996825010), G(1, 642813549),
            G(2, 513874426), G(3, 1027748829), G(4, 705979059)>>)

\* chk = polymodStep(chk) ^ v for every v of vals from place i on.
RECURSIVE PolymodFrom(_, _, _)
PolymodFrom(vals, i, chk) ==
  IF i > Len(vals) THEN chk
  ELSE With(Xor(polymodStep(chk), vals[i]), LAMBDA c : PolymodFrom(vals, i + 1, c))

\* The values that prefixChk feeds to the checksum: the high bits of every
\* character, a zero, the low bits of every character.
PrefixValues(prefix) ==
  [i \in 1..Len(prefix) |-> prefix[i] \div 32] \o <<0>>
  \o [i \in 1..Len(prefix) |-> prefix[i] % 32]

\* prefixChk(prefix) for a prefix of characters 33 .. 126.
prefixChk(prefix) == PolymodFrom(PrefixValues(prefix), 1, 1)

\* toLowerCase / toUpperCase of a string.
ToLowerCase(str) == [i \in 1..Len(str) |-> IF str[i] >= 65 /\ str[i] <= 90 THEN str[i] + 32 ELSE str[i]]
ToUpperCase(str) == [i \in 1..Len(str) |-> IF str[i] >= 97 /\ str[i] <= 122 THEN str[i] - 32 ELSE str[i]]

\* bech32.encode(prefix, words)
bech32_encode(prefix, words) ==
  IF Len(prefix) + 7 + Len(words) > 90 THEN Throw("Exceeds length limit", <<>>)
  ELSE IF \E i \in 1..Len(words) : words[i] \div 32 # 0 THEN Throw("Non 5-bit word", <<>>)
  ELSE
    With(PolymodFrom(words \o <<0, 0, 0, 0, 0, 0>>, 1, prefixChk(ToLowerCase(prefix))),
      LAMBDA chk0 :
        LET chk == Xor(chk0, 1)
        IN Ok(ToLowerCase(prefix) \o <<49>>
              \o [i \in 1..Len(words) |-> ALPHABET[words[i] + 1]]
              \o [i \in 1..6 |-> ALPHABET[((chk \div (2 ^ ((6 - i) * 5))) % 32) + 1]],
              <<>>))

\* bech32.decode(str): { prefix, words } or a thrown error.
bech32_decode(text) ==
  IF Len(text) < 8 THEN Throw("too short", <<>>)
  ELSE IF Len(text) > 90 THEN Throw("Exceeds length limit", <<>>)
  ELSE IF text # ToLowerCase(text) /\ text # ToUpperCase(text)
  THEN Throw("Mixed-case string", <<>>)
  ELSE
    LET str == ToLowerCase(text)
        ones == {i \in 1..Len(str) : str[i] = 49}
        split == IF ones = {} THEN 0 ELSE CHOOSE i \in ones : \A j \in ones : j <= i
        prefix == SubSeq(str, 1, split - 1)
        wordChars == SubSeq(str, split + 1, Len(str))
        values == [i \in 1..Len(wordChars) |-> AlphabetValue(wordChars[i])]
    IN IF split = 0 THEN Throw("No separator character", <<>>)
       ELSE IF split = 1 THEN Throw("Missing prefix", <<>>)
       ELSE IF Len(wordChars) < 6 THEN Throw("Data too short", <<>>)
       ELSE IF \E i \in 1..Len(prefix) : prefix[i] < 33 \/ prefix[i] > 126
       THEN Throw("Invalid prefix", <<>>)
       ELSE IF \E i \in 1..Len(values) : values[i] < 0
       THEN Throw("Unknown character", <<>>)
       ELSE IF PolymodFrom(values, 1, prefixChk(prefix)) # 1
       THEN Throw("Invalid checksum", <<>>)
       ELSE Ok([prefix |-> prefix, words |-> SubSeq(values, 1, Len(values) - 6)], <<>>)

\* bech32.toWords(bytes): the bits of the bytes in groups of five, the last
\* group padded with zeros.
bech32_toWords(bytes) ==
  LET bits == BytesToBits(bytes)
      padded == bits \o [i \in 1..((5 - (Len(bits) % 5)) % 5) |-> 0]
  IN [i \in 1..(Len(padded) \div 5) |-> FromBits(SubSeq(padded, 5 * i - 4, 5 * i))]

\* bech32.fromWords(words): the bits of the words in groups of eight; throws
\* when five or more bits are left over, or bits that are not zero.
bech32_fromWords(words) ==
  LET bits == Flatten([i \in 1..Len(words) |-> ToBits(words[i], 5)])
      rest == SubSeq(bits, 8 * (Len(bits) \div 8) + 1, Len(bits))
  IN IF Len(rest) >= 5 THEN Throw("Excess padding", <<>>)
     ELSE IF \E i \in 1..Len(rest) : rest[i] # 0 THEN Throw("Non-zero padding", <<>>)
     ELSE Ok([i \in 1..(Len(bits) \div 8) |-> FromBits(SubSeq(bits, 8 * i - 7, 8 * i))],
             <<>>)

\* ------------------------------------------------------- crypto/bech32.ts

\* 'arcv'
ADDRESS_HRP == <<97, 114, 99, 118>>

ADDRESS_DATA_LENGTH == 20

ERR_PREFIX == "Invalid address prefix"
ERR_DATA_LENGTH == "Invalid address data length"

\* pubKeyToAddress(publicKey) that encodes the first 20 bytes of the key
\* instead of its digest.
pubKeyToAddress_NoDigest(publicKey) ==
  IF Len(publicKey) # PUBLIC_KEY_LEN THEN Throw(ERR_PUB32, <<>>)
  ELSE Ok(bech32_encode(ADDRESS_HRP, bech32_toWords(SubSeq(publicKey, 1, 20))).val,
          <<"toWords", "encode">>)

\* pubKeyToAddress(publicKey)
pubKeyToAddress(publicKey) ==
  IF Len(publicKey) # PUBLIC_KEY_LEN THEN Throw(ERR_PUB32, <<>>)
  ELSE
    LET hash == blake2b(publicKey, ADDRESS_DATA_LENGTH)
        words == bech32_toWords(hash)
        encoded == bech32_encode(ADDRESS_HRP, words)
    IN IF ~encoded.ok THEN Throw(encoded.err, <<"blake2b", "toWords", "encode">>)
       ELSE Ok(encoded.val, <<"blake2b", "toWords", "encode">>)

\* parseAddress(address) without the check of the prefix.
parseAddress_AnyPrefix(address) ==
  LET decoded == bech32_decode(address) IN
  IF ~decoded.ok THEN Throw(decoded.err, <<"decode">>)
  ELSE
    LET data == bech32_fromWords(decoded.val.words) IN
    IF ~data.ok THEN Throw(data.err, <<"decode", "fromWords">>)
    ELSE IF Len(data.val) # ADDRESS_DATA_LENGTH
    THEN Throw(ERR_DATA_LENGTH, <<"decode", "fromWords">>)
    ELSE Ok(data.val, <<"decode", "fromWords">>)

\* parseAddress(address)
parseAddress(address) ==
  LET decoded == bech32_decode(address) IN
  IF ~decoded.ok THEN Throw(decoded.err, <<"decode">>)
  ELSE IF decoded.val.prefix # ADDRESS_HRP THEN Throw(ERR_PREFIX, <<"decode">>)
  ELSE
    LET data == bech32_fromWords(decoded.val.words) IN
    IF ~data.ok THEN Throw(data.err, <<"decode", "fromWords">>)
    ELSE IF Len(data.val) # ADDRESS_DATA_LENGTH
    THEN Throw(ERR_DATA_LENGTH, <<"decode", "fromWords">>)
    ELSE Ok(data.val, <<"decode", "fromWords">>)

\* isValidAddress(address)
isValidAddress(address) ==
  Ok(parseAddress(address).ok, <<"parseAddress">>)

\* -------------------------------------------------------- crypto/bip39.ts

ERR_STRENGTH == "Only 256-bit entropy (24 words) is supported"
ERR_MNEMONIC == "Invalid mnemonic"
ERR_SEED64 == "Seed must be 64 bytes"

\* generateMnemonic(strength) without the check of the strength.
generateMnemonic_AnyStrength(strength, entropy) ==
  Ok(entropyToMnemonic(SubSeq(entropy, 1, strength \div 8)), <<"bip39.generateMnemonic">>)

\* generateMnemonic(strength); `entropy` is what the library's random source
\* hands out, strength / 8 bytes.
generateMnemonic(strength, entropy) ==
  IF strength # 256 THEN Throw(ERR_STRENGTH, <<>>)
  ELSE Ok(entropyToMnemonic(SubSeq(entropy, 1, strength \div 8)), <<"bip39.generateMnemonic">>)

\* validateMnemonic(mnemonic): bip39.validateMnemonic is mnemonicToEntropy in
\* a try / catch.
validateMnemonic(mnemonic) == MnemonicToEntropyReturns(mnemonic)

\* mnemonicToSeed(mnemonic, passphrase)
mnemonicToSeed(mnemonic, passphrase) ==
  IF ~validateMnemonic(mnemonic) THEN Throw(ERR_MNEMONIC, <<"validateMnemonic">>)
  ELSE Ok(mnemonicToSeedSync(mnemonic, passphrase),
          <<"validateMnemonic", "mnemonicToSeedSync">>)

\* ------------------------------------------------------- crypto/slip10.ts

\* 'ed25519 seed'
ED25519_CURVE == <<101, 100, 50, 53, 53, 49, 57, 32, 115, 101, 101, 100>>

\* The key pair  { publicKey, secretKey }.
KeyPair(publicKey, secretKey) == [publicKey |-> publicKey, secretKey |-> secretKey]

\* deriveKeyPair(seed) that takes the right half of the master key.
deriveKeyPair_RightHalf(seed) ==
  IF Len(seed) # 64 THEN Throw(ERR_SEED64, <<"deriveKeyPair">>)
  ELSE
    LET masterKey == hmacSha512(ED25519_CURVE, seed)
        IL == SubSeq(masterKey, 33, 64)
        publicKey == getPublicKeySync(IL)
    IN Ok(KeyPair(publicKey.val, IL \o publicKey.val),
          <<"deriveKeyPair", "hmac", "getPublicKeySync">>)

\* deriveKeyPair(seed)
deriveKeyPair(seed) ==
  IF Len(seed) # 64 THEN Throw(ERR_SEED64, <<"deriveKeyPair">>)
  ELSE
    LET masterKey == hmacSha512(ED25519_CURVE, seed)
        IL == SubSeq(masterKey, 1, 32)
        publicKey == getPublicKeySync(IL)
    IN Ok(KeyPair(publicKey.val, IL \o publicKey.val),
          <<"deriveKeyPair", "hmac", "getPublicKeySync">>)

\* deriveKeyPairAsync(seed)
deriveKeyPairAsync(seed) == deriveKeyPair(seed)

\* -------------------------------------------------- wallet/derivation.ts

\* Derivation.mnemonicGenerate()
Derivation_mnemonicGenerate(entropy) == generateMnemonic(256, entropy)

\* Derivation.fromMnemonic(mnemonic, passphrase) that derives from whatever
\* seed the library computes, valid mnemonic or not.
Derivation_fromMnemonic_Unchecked(mnemonic, passphrase) ==
  LET kp == deriveKeyPair(mnemonicToSeedSync(mnemonic, passphrase))
  IN [kp EXCEPT !.steps = <<"mnemonicToSeedSync">> \o @]

\* Derivation.fromMnemonic(mnemonic, passphrase)
Derivation_fromMnemonic(mnemonic, passphrase) ==
  LET seed == mnemonicToSeed(mnemonic, passphrase) IN
  IF ~seed.ok THEN seed
  ELSE LET kp == deriveKeyPair(seed.val)
       IN [kp EXCEPT !.steps = seed.steps \o @]

\* Derivation.toAddress(publicKey)
Derivation_toAddress(publicKey) == pubKeyToAddress(publicKey)

\* Derivation.mnemonicToAddress(mnemonic, passphrase)
Derivation_mnemonicToAddress(mnemonic, passphrase) ==
  LET kp == Derivation_fromMnemonic(mnemonic, passphrase) IN
  IF ~kp.ok THEN kp
  ELSE LET address == Derivation_toAddress(kp.val.publicKey)
       IN [address EXCEPT !.steps = kp.steps \o @]

\* Derivation.fromMnemonicAsync, Derivation.mnemonicToAddressAsync
Derivation_fromMnemonicAsync(mnemonic, passphrase) ==
  Derivation_fromMnemonic(mnemonic, passphrase)
Derivation_mnemonicToAddressAsync(mnemonic, passphrase) ==
  Derivation_mnemonicToAddress(mnemonic, passphrase)

\* ------------------------------------------- mnemonics, seeds and key pairs

\* What the random source may hand out: 32 bytes.
Entropies == {Repeat(0, 32), Repeat(255, 32), [i \in 1..32 |-> (7 * i) % 256]}

\* Mnemonics with a right checksum, of 12, 15, 18, 21 and 24 words.
Mnemonic12 == entropyToMnemonic(Repeat(0, 16))
Mnemonic15 == entropyToMnemonic(Repeat(1, 20))
Mnemonic18 == entropyToMnemonic(Repeat(2, 24))
Mnemonic21 == entropyToMnemonic(Repeat(3, 28))
Mnemonic24 == entropyToMnemonic(Repeat(0, 32))

ShortMnemonics == {Mnemonic12, Mnemonic15, Mnemonic18, Mnemonic21}

GeneratedMnemonics == {entropyToMnemonic(e) : e \in Entropies}

\* Mnemonics that bip39 rejects: a wrong checksum, a word that is not in the
\* list, a number of words that is not a multiple of three, too few and too
\* many words, 'invalid mnemonic', the empty string (one empty word).
BadMnemonics ==
  { [Mnemonic24 EXCEPT ![24] = (@ + 1) % 2048],
    [Mnemonic12 EXCEPT ![12] = (@ + 1) % 2048],
    [Mnemonic24 EXCEPT ![5] = NotAWord],
    SubSeq(Mnemonic24, 1, 23),
    Mnemonic24 \o <<0>>,
    Mnemonic24 \o <<0, 0, 0>>,
    SubSeq(Mnemonic12, 1, 9),
    <<NotAWord, NotAWord>>,
    <<NotAWord>> }

Mnemonics == GeneratedMnemonics \union ShortMnemonics \union BadMnemonics

\* '' and 'TREZOR'
Passphrases == {<<>>, <<84, 82, 69, 90, 79, 82>>}

\* Seeds handed to deriveKeyPair: of 64 bytes and of other lengths.
Seeds ==
  { mnemonicToSeedSync(Mnemonic24, <<>>), mnemonicToSeedSync(Mnemonic12, <<>>),
    Repeat(0, 64), Repeat(0, 0), Repeat(0, 32), Repeat(0, 63), Repeat(0, 65),
    Repeat(0, 128) }

Strengths == {128, 256, 512}

\* ------------------------------------------------ the derivation operations
\* One call at a time: an operation is called, its result is looked at, and
\* the next call starts afresh.

DerivGenerate ==
  \E strength \in Strengths, entropy \in Entropies :
    /\ deriv = NoDeriv
    /\ deriv' = [op |-> "generateMnemonic",
                 input |-> DerivInput(strength, entropy, <<>>, <<>>, <<>>),
                 res |-> generateMnemonic(strength, entropy)]
    /\ UNCHANGED <<signing, canon, addr, later>>

DerivMnemonicGenerate ==
  \E entropy \in Entropies :
    /\ deriv = NoDeriv
    /\ deriv' = [op |-> "mnemonicGenerate",
                 input |-> DerivInput(256, entropy, <<>>, <<>>, <<>>),
                 res |-> Derivation_mnemonicGenerate(entropy)]
    /\ UNCHANGED <<signing, canon, addr, later>>

DerivValidate ==
  \E mnemonic \in Mnemonics :
    /\ deriv = NoDeriv
    /\ deriv' = [op |-> "validateMnemonic",
                 input |-> DerivInput(0, <<>>, mnemonic, <<>>, <<>>),
                 res |-> Ok(validateMnemonic(mnemonic), <<"bip39.validateMnemonic">>)]
    /\ UNCHANGED <<signing, canon, addr, later>>

DerivMnemonicToSeed ==
  \E mnemonic \in Mnemonics, passphrase \in Passphrases :
    /\ deriv = NoDeriv
    /\ deriv' = [op |-> "mnemonicToSeed",
                 input |-> DerivInput(0, <<>>, mnemonic, passphrase, <<>>),
                 res |-> mnemonicToSeed(mnemonic, passphrase)]
    /\ UNCHANGED <<signing, canon, addr, later>>

DerivDeriveKeyPair ==
  \E seed \in Seeds, op \in {"deriveKeyPair", "deriveKeyPairAsync"} :
    /\ deriv = NoDeriv
    /\ deriv' = [op |-> op,
                 input |-> DerivInput(0, <<>>, <<>>, <<>>, seed),
                 res |-> IF op = "deriveKeyPair" THEN deriveKeyPair(seed)
                         ELSE deriveKeyPairAsync(seed)]
    /\ UNCHANGED <<signing, canon, addr, later>>

DerivFromMnemonic ==
  \E mnemonic \in Mnemonics, passphrase \in Passphrases,
     op \in {"fromMnemonic", "fromMnemonicAsync"} :
    /\ deriv = NoDeriv
    /\ deriv' = [op |-> op,
                 input |-> DerivInput(0, <<>>, mnemonic, passphrase, <<>>),
                 res |-> IF op = "fromMnemonic"
                         THEN Derivation_fromMnemonic(mnemonic, passphrase)
                         ELSE Derivation_fromMnemonicAsync(mnemonic, passphrase)]
    /\ UNCHANGED <<signing, canon, addr, later>>

DerivMnemonicToAddress ==
  \E mnemonic \in Mnemonics, passphrase \in Passphrases,
     op \in {"mnemonicToAddress", "mnemonicToAddressAsync"} :
    /\ deriv = NoDeriv
    /\ deriv' = [op |-> op,
                 input |-> DerivInput(0, <<>>, mnemonic, passphrase, <<>>),
                 res |-> IF op = "mnemonicToAddress"
                         THEN Derivation_mnemonicToAddress(mnemonic, passphrase)
                         ELSE Derivation_mnemonicToAddressAsync(mnemonic, passphrase)]
    /\ UNCHANGED <<signing, canon, addr, later>>

\* Derivation.toAddress of the public key that fromMnemonic returned.
DerivToAddress ==
  /\ deriv.op \in {"fromMnemonic", "fromMnemonicAsync"}
  /\ deriv.res.ok
  /\ deriv' = [op |-> "toAddress", input |-> deriv.input,
               res |-> Derivation_toAddress(deriv.res.val.publicKey)]
  /\ UNCHANGED <<signing, canon, addr, later>>

DerivDone ==
  /\ deriv # NoDeriv
  /\ deriv' = NoDeriv
  /\ UNCHANGED <<signing, canon, addr, later>>

DerivNext ==
  \/ DerivGenerate
  \/ DerivMnemonicGenerate
  \/ DerivValidate
  \/ DerivMnemonicToSeed
  \/ DerivDeriveKeyPair
  \/ DerivFromMnemonic
  \/ DerivMnemonicToAddress
  \/ DerivToAddress
  \/ DerivDone

DerivSpec == Init /\ [][DerivNext]_vars

\* ------------------------------------------------- public keys and addresses

\* Public keys of 32 bytes.
PublicKeys ==
  { LibGetPublicKey(SeedA), LibGetPublicKey(SeedB), Repeat(0, 32), Repeat(255, 32),
    [i \in 1..32 |-> (11 * i) % 256] }

\* Byte arrays of other lengths handed over as public keys.
BadPublicKeys ==
  { Repeat(0, 0), Repeat(7, 20), Repeat(7, 31), Repeat(7, 33), SecretKeyOf(SeedA) }

\* The text that bech32 makes of a prefix and words.
Encoded(prefix, words) == bech32_encode(prefix, words).val

\* The character after c in the alphabet of bech32.
OtherChar(c) == ALPHABET[((AlphabetValue(c) + 1) % 32) + 1]

\* Texts made from the address of a public key: the address, in upper case,
\* in mixed case, with the last or a middle character changed, with a
\* character outside the alphabet ('b').
TextsOfAddress(a) ==
  { a, ToUpperCase(a), [a EXCEPT ![1] = 65],
    [a EXCEPT ![Len(a)] = OtherChar(@)], [a EXCEPT ![12] = OtherChar(@)],
    [a EXCEPT ![20] = 98] }

\* Texts with a right checksum that are not addresses: another prefix
\* ('arcx', 'bc'), a payload of 19 or 21 bytes, a word too many, padding bits
\* that are not zero.
TextsOfDigest(h) ==
  { Encoded(<<97, 114, 99, 120>>, bech32_toWords(h)),
    Encoded(<<98, 99>>, bech32_toWords(h)),
    Encoded(ADDRESS_HRP, bech32_toWords(SubSeq(h, 1, 19))),
    Encoded(ADDRESS_HRP, bech32_toWords(h \o <<0>>)),
    Encoded(ADDRESS_HRP, bech32_toWords(h) \o <<0>>),
    Encoded(ADDRESS_HRP, [bech32_toWords(SubSeq(h, 1, 19)) EXCEPT ![31] = 1]) }

\* Texts that are not bech32: '', 'arcv', no separator, no prefix, too few
\* characters after the separator, more than 90 characters.
MalformedTexts ==
  { <<>>, ADDRESS_HRP, ADDRESS_HRP \o Repeat(113, 39), <<49>> \o Repeat(113, 38),
    ADDRESS_HRP \o <<49, 113, 113, 113>>, ADDRESS_HRP \o <<49>> \o Repeat(113, 86) }

AddressTexts ==
  UNION {TextsOfAddress(pubKeyToAddress(pk).val) : pk \in PublicKeys}
  \union UNION {TextsOfDigest(blake2b(pk, ADDRESS_DATA_LENGTH)) : pk \in PublicKeys}
  \union MalformedTexts

\* --------------------------------------------------- the address operations
\* One call at a time; the address that pubKeyToAddress returned can be parsed
\* or validated next.

AddrPubKeyToAddress ==
  \E pk \in PublicKeys \union BadPublicKeys :
    /\ addr = NoAddr
    /\ addr' = [op |-> "pubKeyToAddress", input |-> AddrInput(pk, <<>>),
                res |-> pubKeyToAddress(pk)]
    /\ UNCHANGED <<signing, canon, deriv, later>>

AddrParseAddress ==
  \E text \in AddressTexts :
    /\ addr = NoAddr
    /\ addr' = [op |-> "parseAddress", input |-> AddrInput(<<>>, text),
                res |-> parseAddress(text)]
    /\ UNCHANGED <<signing, canon, deriv, later>>

AddrIsValidAddress ==
  \E text \in AddressTexts :
    /\ addr = NoAddr
    /\ addr' = [op |-> "isValidAddress", input |-> AddrInput(<<>>, text),
                res |-> isValidAddress(text)]
    /\ UNCHANGED <<signing, canon, deriv, later>>

\* parseAddress or isValidAddress of the address that pubKeyToAddress returned.
AddrRoundTrip ==
  /\ addr.op = "pubKeyToAddress"
  /\ addr.res.ok
  /\ \E op \in {"parseAddress", "isValidAddress"} :
       addr' = [op |-> op, input |-> AddrInput(addr.input.publicKey, addr.res.val),
                res |-> IF op = "parseAddress" THEN parseAddress(addr.res.val)
                        ELSE isValidAddress(addr.res.val)]
  /\ UNCHANGED <<signing, canon, deriv, later>>

AddrDone ==
  /\ addr # NoAddr
  /\ addr' = NoAddr
  /\ UNCHANGED <<signing, canon, deriv, later>>

AddrNext ==
  \/ AddrPubKeyToAddress
  \/ AddrParseAddress
  \/ AddrIsValidAddress
  \/ AddrRoundTrip
  \/ AddrDone

AddrSpec == Init /\ [][AddrNext]_vars

\* --------------------------------------------- one operation, called twice

\* The operations that are called twice, and the arguments they are given.
TwiceOps == {"fromMnemonic", "mnemonicToAddress", "Tx.hash", "Tx.sign", "mnemonicGenerate"}

TwiceMnemonics ==
  GeneratedMnemonics \union {Mnemonic12, [Mnemonic24 EXCEPT ![24] = (@ + 1) % 2048]}

TwiceInputs(op) ==
  CASE op \in {"fromMnemonic", "mnemonicToAddress"} ->
         {TwiceInput(NoTx, <<>>, m, p) : m \in TwiceMnemonics, p \in Passphrases}
    [] op = "Tx.hash" -> {TwiceInput(t, <<>>, <<>>, <<>>) : t \in DirectTxs}
    [] op = "Tx.sign" -> {TwiceInput(t, k, <<>>, <<>>) : t \in DirectTxs, k \in Keys}
    [] OTHER -> {TwiceInput(NoTx, <<>>, <<>>, <<>>)}

\* A call that also draws on the random source: Tx.sign with a signature
\* whose nonce is random.
CallOnce_RandomNonce(op, input, random) ==
  CASE op = "fromMnemonic" -> Derivation_fromMnemonic(input.mnemonic, input.passphrase)
    [] op = "mnemonicToAddress" ->
         Derivation_mnemonicToAddress(input.mnemonic, input.passphrase)
    [] op = "Tx.hash" -> Tx_hash(input.tx)
    [] op = "Tx.sign" ->
         LET r == Tx_sign(input.tx, input.key)
         IN IF ~r.ok THEN r
            ELSE [r EXCEPT !.val.sigHex =
                    bytesToHex(SubSeq(random, 1, 32)
                               \o SubSeq(hexToBytes(r.val.sigHex).val, 33, 64))]
    [] OTHER -> Derivation_mnemonicGenerate(random)

\* One call of the operation: only Derivation.mnemonicGenerate draws on the
\* random source.
CallOnce(op, input, random) ==
  CASE op = "fromMnemonic" -> Derivation_fromMnemonic(input.mnemonic, input.passphrase)
    [] op = "mnemonicToAddress" ->
         Derivation_mnemonicToAddress(input.mnemonic, input.passphrase)
    [] op = "Tx.hash" -> Tx_hash(input.tx)
    [] op = "Tx.sign" -> Tx_sign(input.tx, input.key)
    [] OTHER -> Derivation_mnemonicGenerate(random)

\* const r1 = op(args)
TwiceFirst ==
  \E op \in TwiceOps :
    \E input \in TwiceInputs(op) :
      /\ twice = NoTwice
      /\ twice' = [op |-> op, input |-> input, first |-> CallOnce(op, input, rng),
                   second |-> NotCalled, drawn |-> FALSE]
      /\ rng' = IF op = "mnemonicGenerate"
                THEN CHOOSE e \in Entropies : e # rng ELSE rng
      /\ UNCHANGED allBut_twice

\* Somebody else generates a mnemonic between the two calls: the random source
\* moves on.
TwiceDraw ==
  /\ twice # NoTwice
  /\ twice.second = NotCalled
  /\ \E e \in Entropies :
       /\ e # rng
       /\ rng' = e
  /\ twice' = [twice EXCEPT !.drawn = TRUE]
  /\ UNCHANGED allBut_twice

\* const r2 = op(args)
TwiceSecond ==
  /\ twice # NoTwice
  /\ twice.second = NotCalled
  /\ twice' = [twice EXCEPT !.second = CallOnce(twice.op, twice.input, rng)]
  /\ rng' = IF twice.op = "mnemonicGenerate"
            THEN CHOOSE e \in Entropies : e # rng ELSE rng
  /\ UNCHANGED allBut_twice

TwiceDone ==
  /\ twice.second # NotCalled
  /\ twice' = NoTwice
  /\ UNCHANGED <<rng, allBut_twice>>

TwiceNext ==
  \/ TwiceFirst
  \/ TwiceDraw
  \/ TwiceSecond
  \/ TwiceDone

TwiceSpec == Init /\ [][TwiceNext]_vars

\* ------------------------------- synchronous operations and their wrappers

\* The synchronous operations that have an asynchronous wrapper.
WrappedOps ==
  {"Tx.sign", "Tx.createSigned", "fromMnemonic", "mnemonicToAddress", "deriveKeyPair",
   "signSync", "verifySync", "getPublicKeySync"}

\* Messages to sign: a transaction hash, the empty message, three bytes.
WrapMessages == {Tx_hash(TestTx).val, <<>>, <<1, 2, 3>>}

\* Signatures to verify, with the message and the public key (in `key`): the
\* signature of the hash, as it is or changed as VerifyModes say.
WrapTriples ==
  {WrapInput(NoTx, VerifyPub(Tx_sign(TestTx, k).val, mode), <<>>, <<>>,
             Tx_hash(TestTx).val, VerifySig(Tx_sign(TestTx, k).val, mode)) :
     k \in {SecretKeyOf(SeedA), SecretKeyOf(SeedB)}, mode \in VerifyModes}

WrapInputs(op) ==
  CASE op \in {"Tx.sign", "Tx.createSigned"} ->
         {WrapInput(t, k, <<>>, <<>>, <<>>, <<>>) : t \in DirectTxs, k \in Keys}
    [] op \in {"fromMnemonic", "mnemonicToAddress"} ->
         {WrapInput(NoTx, <<>>, m, p, <<>>, <<>>) : m \in TwiceMnemonics, p \in Passphrases}
    [] op = "deriveKeyPair" ->
         {WrapInput(NoTx, seed, <<>>, <<>>, <<>>, <<>>) : seed \in Seeds}
    [] op = "signSync" ->
         {WrapInput(NoTx, k, <<>>, <<>>, msg, <<>>) :
            k \in Keys \union {SeedA, SeedB}, msg \in WrapMessages}
    [] op = "verifySync" -> WrapTriples
    [] OTHER ->
         {WrapInput(NoTx, k, <<>>, <<>>, <<>>, <<>>) : k \in Keys \union {SeedA, SeedB}}

\* The call of the synchronous operation.
CallSync(op, input) ==
  CASE op = "Tx.sign" -> Tx_sign(input.tx, input.key)
    [] op = "Tx.createSigned" -> Tx_createSigned(input.tx, input.key)
    [] op = "fromMnemonic" -> Derivation_fromMnemonic(input.mnemonic, input.passphrase)
    [] op = "mnemonicToAddress" ->
         Derivation_mnemonicToAddress(input.mnemonic, input.passphrase)
    [] op = "deriveKeyPair" -> deriveKeyPair(input.key)
    [] op = "signSync" -> signSync(input.message, input.key)
    [] op = "verifySync" -> verifySync(input.signature, input.message, input.key)
    [] OTHER -> getPublicKeySync(input.key)

\* The call of its asynchronous wrapper: what the promise settles to.
CallAsync(op, input) ==
  CASE op = "Tx.sign" -> Tx_signAsync(input.tx, input.key)
    [] op = "Tx.createSigned" -> Tx_createSignedAsync(input.tx, input.key)
    [] op = "fromMnemonic" ->
         Derivation_fromMnemonicAsync(input.mnemonic, input.passphrase)
    [] op = "mnemonicToAddress" ->
         Derivation_mnemonicToAddressAsync(input.mnemonic, input.passphrase)
    [] op = "deriveKeyPair" -> deriveKeyPairAsync(input.key)
    [] op = "signSync" -> sign(input.message, input.key)
    [] op = "verifySync" -> verify(input.message, input.signature, input.key)
    [] OTHER -> getPublicKey(input.key)

\* The arguments are chosen.
WrapChoose ==
  \E op \in WrappedOps :
    \E input \in WrapInputs(op) :
      /\ wrap = NoWrap
      /\ wrap' = [NoWrap EXCEPT !.op = op, !.input = input]
      /\ UNCHANGED allBut_wrap

\* try { r = op(args) } catch (e) { ... }
WrapSync ==
  /\ wrap.op # ""
  /\ wrap.sync = NotCalled
  /\ wrap' = [wrap EXCEPT !.sync = CallSync(wrap.op, wrap.input)]
  /\ UNCHANGED allBut_wrap

\* const promise = opAsync(args): an async function never throws, it returns
\* a promise that is fulfilled or rejected.
WrapAsync ==
  /\ wrap.op # ""
  /\ wrap.promise = "none"
  /\ wrap' = [wrap EXCEPT !.promise = "pending",
                          !.outcome = CallAsync(wrap.op, wrap.input)]
  /\ UNCHANGED allBut_wrap

\* await promise
WrapAwait ==
  /\ wrap.promise = "pending"
  /\ wrap' = [wrap EXCEPT !.promise = "settled", !.awaited = wrap.outcome]
  /\ UNCHANGED allBut_wrap

WrapDone ==
  /\ wrap.sync # NotCalled
  /\ wrap.promise = "settled"
  /\ wrap' = NoWrap
  /\ UNCHANGED allBut_wrap

WrapNext ==
  \/ WrapChoose
  \/ WrapSync
  \/ WrapAsync
  \/ WrapAwait
  \/ WrapDone

WrapSpec == Init /\ [][WrapNext]_vars

\* ------------------------------------------------- keys written as hex text

\* The keys that are written as hex: of 32 and 64 bytes, and of other lengths.
HexKeys ==
  {SeedA, SeedB, SecretKeyOf(SeedA), SecretKeyOf(SeedB), MismatchedKey,
   Repeat(1, 31), Repeat(1, 0)}

\* How a key is written: in lowercase hex, with 0x in front, in uppercase.
HexForms == {"plain", "0x", "upper"}

\* How a text is spoiled: a character that is no hex digit in the first or the
\* last place ('g', 'z'), a sign in front of a digit ('-'), a space, a digit
\* short.
BadHexForms == {"g-first", "z-last", "minus", "space", "odd"}

HexText(k, form) ==
  LET hex == bytesToHex(k) IN
  CASE form = "plain" -> hex
    [] form = "0x" -> <<48, 120>> \o hex
    [] form = "upper" -> ToUpperCase(hex)
    [] form = "g-first" -> <<103>> \o SubSeq(hex, 2, Len(hex))
    [] form = "z-last" -> SubSeq(hex, 1, Len(hex) - 1) \o <<122>>
    [] form = "minus" -> <<45>> \o SubSeq(hex, 2, Len(hex))
    [] form = "space" -> <<32>> \o SubSeq(hex, 2, Len(hex))
    [] OTHER -> SubSeq(hex, 1, Len(hex) - 1)

HexOps == {"hexToBytes", "Tx.signWithHexKey", "Tx.createSignedFromHexKey"}

\* The operation on the hex text.
CallHex(op, t, text) ==
  CASE op = "hexToBytes" ->
         LET r == hexToBytes(text)
         IN IF r.ok THEN Ok(r.val, <<>>) ELSE Throw(r.err, <<>>)
    [] op = "Tx.signWithHexKey" -> Tx_signWithHexKey(t, text)
    [] OTHER -> Tx_createSignedFromHexKey(t, text)

\* The operation on the bytes: the bytes themselves, Tx.signWithRawKey,
\* Tx.createSignedFromRawKey.
CallRaw(op, t, bytes) ==
  CASE op = "hexToBytes" -> Ok(bytes, <<>>)
    [] op = "Tx.signWithHexKey" -> Tx_signWithRawKey(t, bytes)
    [] OTHER -> Tx_createSignedFromRawKey(t, bytes)

\* const hexKey = bytesToHex(key), written one way or another, and handed to
\* an operation.
HexCall ==
  \E op \in HexOps, t \in DirectTxs, k \in HexKeys, form \in HexForms :
    /\ hexkey = NoHexKey
    /\ hexkey' = [op |-> op, tx |-> t, bytes |-> k, text |-> HexText(k, form),
                  like |-> form, hex |-> CallHex(op, t, HexText(k, form)),
                  raw |-> NotCalled]
    /\ UNCHANGED allBut_hexkey

\* A text that is not the hex of a key is handed to an operation.
HexCallBad ==
  \E op \in HexOps, k \in HexKeys \ {<<>>}, form \in BadHexForms :
    /\ hexkey = NoHexKey
    /\ hexkey' = [op |-> op, tx |-> TestTx, bytes |-> <<>>, text |-> HexText(k, form),
                  like |-> form, hex |-> CallHex(op, TestTx, HexText(k, form)),
                  raw |-> NotCalled]
    /\ UNCHANGED allBut_hexkey

\* const binaryResult = Tx.signWithRawKey(tx, key)
HexCallRaw ==
  /\ hexkey.like \in HexForms
  /\ hexkey.raw = NotCalled
  /\ hexkey' = [hexkey EXCEPT !.raw = CallRaw(hexkey.op, hexkey.tx, hexkey.bytes)]
  /\ UNCHANGED allBut_hexkey

HexDone ==
  /\ hexkey # NoHexKey
  /\ hexkey' = NoHexKey
  /\ UNCHANGED allBut_hexkey

HexNext ==
  \/ HexCall
  \/ HexCallBad
  \/ HexCallRaw
  \/ HexDone

HexSpec == Init /\ [][HexNext]_vars

\* ------------------------------------------------- signing calls in flight

\* The operations that sign with a key buffer; the asynchronous ones return a
\* promise.
ConcOps ==
  {"Tx.sign", "Tx.signAsync", "Tx.createSigned", "Tx.createSignedAsync",
   "Tx.signWithRawKey", "Tx.createSignedFromRawKey"}
ConcAsyncOps == {"Tx.signAsync", "Tx.createSignedAsync"}
ConcRawOps == {"Tx.signWithRawKey", "Tx.createSignedFromRawKey"}
ConcPackOps == {"Tx.createSigned", "Tx.createSignedAsync", "Tx.createSignedFromRawKey"}

\* The body of the i-th call: the tests' body with nonce i.
TxOfCall(i) == [TestTx EXCEPT ![6] = <<S_nonce, Str(<<48 + i>>)>>]

\* The key buffers: a 64-byte record, a 32-byte seed, a buffer of 31 bytes.
ConcKeys == {SecretKeyOf(SeedA), SeedB, Repeat(1, 31)}

\* The program counters of a call that is between its first statement and
\* its return.
Running == {"called", "entered", "hashed", "signed"}

\* The bytes that the secretKey of a call refers to: the caller's buffer or
\* the buffer the call made.
SecretKeyBytes(c) == IF c.aliased THEN c.keyBuffer ELSE c.newBuffer

\* How a call ends: a synchronous one returns or throws, an asynchronous one
\* leaves a promise to settle.
Finish(c, res) ==
  [c EXCEPT !.res = res,
            !.pc = IF c.op \in ConcAsyncOps THEN "pending" ELSE "done"]

\* The first statements of a call: the check of the key length and, in
\* Tx.signWithRawKey, the key pair. A 32-byte key is copied into a new
\* 64-byte buffer with its public key behind it; a 64-byte key is used where
\* it is.
EnterStmt(cs, i) ==
  LET c == cs[i]
      privateKey == c.keyBuffer
  IN IF c.op \in ConcRawOps
     THEN IF Len(privateKey) = SEED_LEN
          THEN LET publicKey == getPublicKeySync(privateKey)
               IN IF ~publicKey.ok THEN Finish(c, Throw(publicKey.err, <<>>))
                  ELSE [c EXCEPT !.pc = "entered", !.publicKey = publicKey.val,
                                 !.aliased = FALSE,
                                 !.newBuffer = privateKey \o publicKey.val]
          ELSE IF Len(privateKey) = SECRET_KEY_LEN
          THEN [c EXCEPT !.pc = "entered", !.aliased = TRUE,
                         !.publicKey = SubSeq(privateKey, 33, 64)]
          ELSE Finish(c, Throw(ERR_RAWKEY, <<>>))
     ELSE IF Len(privateKey) # SECRET_KEY_LEN
          THEN Finish(c, Throw(ERR_KEY64, <<>>))
          ELSE [c EXCEPT !.pc = "entered", !.aliased = TRUE]

\* const txHash = Tx.hash(tx)
HashStmt(cs, i) ==
  [cs[i] EXCEPT !.pc = "hashed", !.txHash = Tx_hash(cs[i].txObject).val]

\* A signing statement that takes the hash from a buffer of the module,
\* which holds the hash of another call when that call has hashed its body.
SignStmt_ModuleBuffer(cs, i) ==
  LET c == cs[i]
      full == {j \in DOMAIN cs : j # i /\ cs[j].txHash # <<>>}
      txHash == IF full = {} THEN c.txHash ELSE cs[CHOOSE j \in full : TRUE].txHash
      signature == signSync(txHash, SecretKeyBytes(c))
  IN IF ~signature.ok THEN Finish(c, Throw(signature.err, <<>>))
     ELSE [c EXCEPT !.pc = "signed", !.signature = signature.val]

\* const signature = ed25519SignSync(txHash, secretKey)
SignStmt(cs, i) ==
  LET c == cs[i]
      signature == signSync(c.txHash, SecretKeyBytes(c))
  IN IF ~signature.ok THEN Finish(c, Throw(signature.err, <<>>))
     ELSE [c EXCEPT !.pc = "signed", !.signature = signature.val]

\* The last statements of a call: Tx.sign slices the public key off the
\* secret key, the three hex strings are made and, in the createSigned
\* operations, packaged with the body object.
ReturnValue(c) ==
  LET publicKey == IF c.op \in ConcRawOps THEN c.publicKey
                   ELSE SubSeq(SecretKeyBytes(c), 33, 64)
      signed == Ok(SigTriple(c.signature, publicKey, c.txHash), <<>>)
  IN IF c.op \in ConcPackOps THEN PackBase64(c.txObject, signed, "") ELSE signed

\* A return that first fills the secret key with zeros.
ReturnStmt_WipesKey(cs, i) ==
  LET c == cs[i]
      zeros == Repeat(0, Len(SecretKeyBytes(c)))
      wiped == IF c.aliased THEN [c EXCEPT !.keyBuffer = zeros]
               ELSE [c EXCEPT !.newBuffer = zeros]
  IN Finish(wiped, ReturnValue(c))

\* return { sigHex, pubHex, hashHex } or return { tx, pubkey, sig, hash }
ReturnStmt(cs, i) == Finish(cs[i], ReturnValue(cs[i]))

\* What an operation returns when it is the only call.
RunAlone(op, t, k) ==
  CASE op = "Tx.sign" -> Tx_sign(t, k)
    [] op = "Tx.signAsync" -> Tx_signAsync(t, k)
    [] op = "Tx.createSigned" -> Tx_createSigned(t, k)
    [] op = "Tx.createSignedAsync" -> Tx_createSignedAsync(t, k)
    [] op = "Tx.signWithRawKey" -> Tx_signWithRawKey(t, k)
    [] op = "Tx.createSignedFromRawKey" -> Tx_createSignedFromRawKey(t, k)

\* Call i takes a step: whether another call was between its statements at
\* that moment is noted.
CallStep(i, c) ==
  [inflight EXCEPT ![i] =
     [c EXCEPT !.overlapped =
        @ \/ \E j \in DOMAIN inflight : j # i /\ inflight[j].pc \in Running]]

\* A caller calls one of the operations on its own body and key.
ConcCall(i) ==
  /\ inflight[i].pc = "idle"
  /\ \E op \in ConcOps, k \in ConcKeys :
       inflight' = CallStep(i, [IdleCall EXCEPT !.op = op, !.pc = "called",
                                               !.txObject = TxOfCall(i),
                                               !.keyBuffer = k,
                                               !.passed = [tx |-> TxOfCall(i), key |-> k]])
  /\ UNCHANGED allBut_conc

ConcEnter(i) ==
  /\ inflight[i].pc = "called"
  /\ inflight' = CallStep(i, EnterStmt(inflight, i))
  /\ UNCHANGED allBut_conc

ConcHash(i) ==
  /\ inflight[i].pc = "entered"
  /\ inflight' = CallStep(i, HashStmt(inflight, i))
  /\ UNCHANGED allBut_conc

ConcSign(i) ==
  /\ inflight[i].pc = "hashed"
  /\ inflight' = CallStep(i, SignStmt(inflight, i))
  /\ UNCHANGED allBut_conc

ConcReturn(i) ==
  /\ inflight[i].pc = "signed"
  /\ inflight' = CallStep(i, ReturnStmt(inflight, i))
  /\ UNCHANGED allBut_conc

\* The promise of an asynchronous operation settles.
ConcSettle(i) ==
  /\ inflight[i].pc = "pending"
  /\ inflight' = CallStep(i, [inflight[i] EXCEPT !.pc = "done"])
  /\ UNCHANGED allBut_conc

\* The caller has taken the result.
ConcDone(i) ==
  /\ inflight[i].pc = "done"
  /\ inflight' = [inflight EXCEPT ![i] = IdleCall]
  /\ UNCHANGED allBut_conc

ConcNext ==
  \E i \in 1..MaxInFlight :
    \/ ConcCall(i)
    \/ ConcEnter(i)
    \/ ConcHash(i)
    \/ ConcSign(i)
    \/ ConcReturn(i)
    \/ ConcSettle(i)
    \/ ConcDone(i)

ConcSpec == Init /\ [][ConcNext]_vars

\* -------------------------------------------------------------- rpc/client.ts

\* The string literals of rpc/client.ts and the texts of the model's
\* replies, as code points.

\* ARCHIVAS_CONSTANTS.DEFAULT_RPC: "https://seed.archivas.ai"
DEFAULT_RPC ==
  <<104, 116, 116, 112, 115, 58, 47, 47, 115, 101, 101, 100, 46, 97, 114, 99, 104,
    105, 118, 97, 115, 46, 97, 105>>
\* The base URL of the tests: "https://test.example.com"
TEST_BASE_URL ==
  <<104, 116, 116, 112, 115, 58, 47, 47, 116, 101, 115, 116, 46, 101, 120, 97, 109,
    112, 108, 101, 46, 99, 111, 109>>
\* A value of ARCHIVAS_RPC_BASE: "http://localhost:8080/"
ENV_BASE_URL ==
  <<104, 116, 116, 112, 58, 47, 47, 108, 111, 99, 97, 108, 104, 111, 115, 116, 58,
    56, 48, 56, 48, 47>>
\* "/account/"
P_account == <<47, 97, 99, 99, 111, 117, 110, 116, 47>>
\* "/chainTip"
P_chainTip == <<47, 99, 104, 97, 105, 110, 84, 105, 112>>
\* "/mempool"
P_mempool == <<47, 109, 101, 109, 112, 111, 111, 108>>
\* "/tx/"
P_tx == <<47, 116, 120, 47>>
\* "/estimateFee?bytes="
P_estimateFee ==
  <<47, 101, 115, 116, 105, 109, 97, 116, 101, 70, 101, 101, 63, 98, 121, 116, 101,
    115, 61>>
\* "/submit"
P_submit == <<47, 115, 117, 98, 109, 105, 116>>
\* "/blocks/recent?limit="
P_blocksRecent ==
  <<47, 98, 108, 111, 99, 107, 115, 47, 114, 101, 99, 101, 110, 116, 63, 108, 105,
    109, 105, 116, 61>>
\* "/tx/recent?limit="
P_txRecent ==
  <<47, 116, 120, 47, 114, 101, 99, 101, 110, 116, 63, 108, 105, 109, 105, 116, 61>>
\* "/block/"
P_block == <<47, 98, 108, 111, 99, 107, 47>>
\* "/genesisHash"
P_genesisHash == <<47, 103, 101, 110, 101, 115, 105, 115, 72, 97, 115, 104>>
\* "/healthz"
P_healthz == <<47, 104, 101, 97, 108, 116, 104, 122>>
\* "/health"
P_health == <<47, 104, 101, 97, 108, 116, 104>>
\* "/peers"
P_peers == <<47, 112, 101, 101, 114, 115>>
\* "/version"
P_version == <<47, 118, 101, 114, 115, 105, 111, 110>>
\* "HTTP "
S_HTTP == <<72, 84, 84, 80, 32>>
\* ": "
S_colon == <<58, 32>>
\* "undefined"
S_undefined == <<117, 110, 100, 101, 102, 105, 110, 101, 100>>
\* "OK"
T_OK == <<79, 75>>
\* "Created"
T_Created == <<67, 114, 101, 97, 116, 101, 100>>
\* "Moved Permanently"
T_Moved ==
  <<77, 111, 118, 101, 100, 32, 80, 101, 114, 109, 97, 110, 101, 110, 116, 108, 121>>
\* "Not Modified"
T_NotModified == <<78, 111, 116, 32, 77, 111, 100, 105, 102, 105, 101, 100>>
\* "Not Found"
T_NotFound == <<78, 111, 116, 32, 70, 111, 117, 110, 100>>
\* "Internal Server Error"
T_ServerError ==
  <<73, 110, 116, 101, 114, 110, 97, 108, 32, 83, 101, 114, 118, 101, 114, 32, 69,
    114, 114, 111, 114>>
\* "blocks"
S_blocks == <<98, 108, 111, 99, 107, 115>>
\* "txs"
S_txs == <<116, 120, 115>>
\* "balance"
S_balance == <<98, 97, 108, 97, 110, 99, 101>>
\* "height"
S_height == <<104, 101, 105, 103, 104, 116>>

\* A JavaScript object or array.
Obj(pairs) == [t |-> "object", s |-> pairs, n |-> 0]

\* A bigint.
BigIntValue(n) == [t |-> "bigint", s |-> <<>>, n |-> n]

\* An error object.
RpcError(name, message) == [name |-> name, message |-> message]

\* `${v}` in a template literal.
Template(v) ==
  CASE v.t = "number" -> Digits(v.n)
    [] v.t = "string" -> v.s
    [] OTHER -> S_undefined

\* A parameter with a default value: the default stands in for undefined.
DefaultTo(v, d) == IF v.t = "undefined" THEN d ELSE v

\* The value of a decimal text.
RECURSIVE DecimalValue(_)
DecimalValue(s) ==
  IF Len(s) = 0 THEN 0
  ELSE 10 * DecimalValue(SubSeq(s, 1, Len(s) - 1)) + (s[Len(s)] - 48)

\* BigInt(v): a decimal string or an integer gives a bigint, undefined a
\* TypeError, any other text a SyntaxError.
BigInt(v) ==
  CASE v.t = "number" -> Ok(BigIntValue(v.n), <<>>)
    [] v.t = "string" /\ (\A i \in 1..Len(v.s) : v.s[i] \in 48..57) ->
         Ok(BigIntValue(DecimalValue(v.s)), <<>>)
    [] v.t = "string" -> Throw(RpcError("SyntaxError", v.s), <<>>)
    [] OTHER -> Throw(RpcError("TypeError", Template(v)), <<>>)

\* new RpcClient(config): the base URL is config.baseUrl, else the
\* environment's ARCHIVAS_RPC_BASE, else the default, without one slash at
\* its end; the timeout is config.timeout, or 30000 when that is 0 or absent.
RpcClient(config) ==
  LET defaultUrl == IF Truthy(config.env) THEN config.env.s ELSE DEFAULT_RPC
      url == IF Truthy(config.baseUrl) THEN config.baseUrl.s ELSE defaultUrl
  IN [made |-> TRUE,
      baseUrl |-> IF Len(url) > 0 /\ url[Len(url)] = 47
                  THEN SubSeq(url, 1, Len(url) - 1) ELSE url,
      timeout |-> IF Truthy(config.timeout) THEN config.timeout.n ELSE 30000]

\* The statuses for which fetch follows, or refuses to follow, a redirect.
RedirectStatuses == {301, 302, 303, 307, 308}

\* fetch(url, init), given what the server replies: with redirect 'error' a
\* redirect is a network error, and any other reply is a Response whose ok
\* says that the status is in 200..299.
fetch(init, reply) ==
  IF init.redirect = "error" /\ reply.status \in RedirectStatuses
  THEN Throw(RpcError("TypeError", <<>>), <<>>)
  ELSE Ok([ok |-> reply.status \in 200..299, status |-> reply.status,
           statusText |-> reply.statusText, json |-> reply.json,
           value |-> reply.value], <<>>)

\* The arguments that each method passes to request: method, path, body.
MethodRequest(m, arg) ==
  CASE m \in {"getAccount", "getBalance", "getNonce"} ->
         [method |-> "GET", path |-> P_account \o Template(arg), body |-> Undefined]
    [] m = "getChainTip" -> [method |-> "GET", path |-> P_chainTip, body |-> Undefined]
    [] m = "getMempool" -> [method |-> "GET", path |-> P_mempool, body |-> Undefined]
    [] m = "getTx" -> [method |-> "GET", path |-> P_tx \o Template(arg), body |-> Undefined]
    [] m = "estimateFee" ->
         [method |-> "GET", path |-> P_estimateFee \o Template(arg), body |-> Undefined]
    [] m = "submit" -> [method |-> "POST", path |-> P_submit, body |-> arg]
    [] m = "getRecentBlocks" ->
         [method |-> "GET", path |-> P_blocksRecent \o Template(DefaultTo(arg, Num(20))),
          body |-> Undefined]
    [] m = "getRecentTxs" ->
         [method |-> "GET", path |-> P_txRecent \o Template(DefaultTo(arg, Num(50))),
          body |-> Undefined]
    [] m = "getBlockByHeight" ->
         [method |-> "GET", path |-> P_block \o Template(arg), body |-> Undefined]
    [] m = "getGenesisHash" -> [method |-> "GET", path |-> P_genesisHash, body |-> Undefined]
    [] m = "getHealth" -> [method |-> "GET", path |-> P_healthz, body |-> Undefined]
    [] m = "getHealthDetailed" -> [method |-> "GET", path |-> P_health, body |-> Undefined]
    [] m = "getPeers" -> [method |-> "GET", path |-> P_peers, body |-> Undefined]
    [] m = "getVersion" -> [method |-> "GET", path |-> P_version, body |-> Undefined]

\* What each method makes of the value that request resolved with.
MethodReturn(m, value) ==
  CASE m = "getBalance" -> BigInt(FieldOf(value, S_balance))
    [] m = "getNonce" -> BigInt(FieldOf(value, S_nonce))
    [] m = "getRecentBlocks" -> Ok(FieldOf(value, S_blocks), <<>>)
    [] m = "getRecentTxs" -> Ok(FieldOf(value, S_txs), <<>>)
    [] OTHER -> Ok(Obj(value), <<>>)

\* request, up to its first await: the URL, a new controller, a new timer,
\* and the one call of fetch.
RequestStart(c, r, m, arg) ==
  LET q == MethodRequest(m, arg)
  IN [r EXCEPT !.method = m, !.arg = arg, !.pc = "fetching",
               !.sent = <<[method |-> q.method, url |-> c.baseUrl \o q.path,
                           body |-> IF q.body.t = "undefined" THEN Undefined
                                    ELSE [t |-> "json", s |-> q.body.s, n |-> 0],
                           redirect |-> "error"]>>,
               !.timer = "armed", !.delay = c.timeout, !.aborted = FALSE]

\* A finally block that clears the timer only when the try block returned.
Finally_OnReturnOnly(r, res) ==
  [r EXCEPT !.pc = "done", !.res = res,
            !.timer = IF @ = "armed" /\ res.ok THEN "cleared" ELSE @]

\* finally { clearTimeout(timeoutId) }: the timer is cleared however the try
\* block ended, and the call ends with what the try block gave.
Finally(r, res) ==
  [r EXCEPT !.pc = "done", !.res = res,
            !.timer = IF @ = "armed" THEN "cleared" ELSE @]

\* The error of a response that is not ok.
HttpError(response) ==
  RpcError("Error", S_HTTP \o Digits(response.status) \o S_colon \o response.statusText)

\* The statements after fetch that send the request once more when the
\* server answers with a 5xx status.
AfterFetch_RetriesOnce(r, response) ==
  IF ~response.ok /\ response.status >= 500 /\ Len(r.sent) < 2
  THEN [r EXCEPT !.sent = @ \o @]
  ELSE IF ~response.ok
  THEN Finally([r EXCEPT !.response = response], Throw(HttpError(response), <<>>))
  ELSE [r EXCEPT !.pc = "parsing", !.response = response, !.parsed = TRUE]

\* The statements after fetch that read the body before they look at ok.
AfterFetch_ParsesFirst(r, response) ==
  IF ~response.ok
  THEN Finally([r EXCEPT !.response = response, !.parsed = TRUE],
               Throw(HttpError(response), <<>>))
  ELSE [r EXCEPT !.pc = "parsing", !.response = response, !.parsed = TRUE]

\* The statements after fetch has resolved: a response that is not ok is
\* thrown as an Error, and the body of any other is parsed.
AfterFetch(r, response) ==
  IF ~response.ok
  THEN Finally([r EXCEPT !.response = response], Throw(HttpError(response), <<>>))
  ELSE [r EXCEPT !.pc = "parsing", !.response = response, !.parsed = TRUE]

\* The statements after response.json() has settled: the value goes to the
\* method, which returns it or a part of it.
AfterJson(r) ==
  IF ~r.response.json THEN Finally(r, Throw(RpcError("SyntaxError", <<>>), <<>>))
  ELSE Finally(r, MethodReturn(r.method, r.response.value))

\* The client configurations: none, the tests' base URL, that URL with a
\* slash and a timeout, and a timeout of 0 with ARCHIVAS_RPC_BASE set.
RpcConfigs ==
  {[baseUrl |-> Undefined, timeout |-> Undefined, env |-> Undefined],
   [baseUrl |-> Str(TEST_BASE_URL), timeout |-> Undefined, env |-> Undefined],
   [baseUrl |-> Str(TEST_BASE_URL \o <<47>>), timeout |-> Num(5000), env |-> Undefined],
   [baseUrl |-> Undefined, timeout |-> Num(0), env |-> Str(ENV_BASE_URL)]}

\* The methods of RpcClient and the arguments of the model's calls.
RpcMethods ==
  {"getAccount", "getChainTip", "getMempool", "getTx", "estimateFee", "submit",
   "getBalance", "getNonce", "getRecentBlocks", "getRecentTxs", "getBlockByHeight",
   "getGenesisHash", "getHealth", "getHealthDetailed", "getPeers", "getVersion"}
RpcArgs(m) ==
  CASE m \in {"getAccount", "getBalance", "getNonce"} -> {Str(ADDR_FROM)}
    [] m = "getTx" -> {Str(<<97, 98, 99, 49, 50, 51>>)}
    [] m = "estimateFee" -> {Num(250)}
    [] m = "submit" -> {Obj(TestTx)}
    [] m = "getRecentBlocks" -> {Undefined, Num(50)}
    [] m = "getRecentTxs" -> {Undefined, Num(100)}
    [] m = "getBlockByHeight" -> {Num(100), Str(<<49, 50, 51, 52, 53>>)}
    [] OTHER -> {Undefined}

\* The first call may be of any method; the calls made while it is in
\* flight are of getChainTip.
RpcMethodsOf(i) == IF i = 1 THEN RpcMethods ELSE {"getChainTip"}

\* The value that a node answers a method with.
GoodValue(m) ==
  CASE m \in {"getAccount", "getBalance", "getNonce"} ->
         << <<S_balance, Str(<<49, 48, 48, 48>>)>>, <<S_nonce, Str(<<55>>)>> >>
    [] m = "getRecentBlocks" -> << <<S_blocks, Obj(<<Num(100), Num(99)>>)>> >>
    [] m = "getRecentTxs" -> << <<S_txs, Obj(<<Num(1)>>)>> >>
    [] OTHER -> << <<S_height, Str(<<49, 48, 48>>)>> >>

\* What a server may reply to a call of m: the value, an empty object or a
\* body that is no JSON with status 200, the value with 201, a redirect, a
\* JSON body with 404, and a body that is no JSON with 500.
Reply(status, statusText, json, value) ==
  [status |-> status, statusText |-> statusText, json |-> json, value |-> value]
Replies(m) ==
  {Reply(200, T_OK, TRUE, GoodValue(m)), Reply(200, T_OK, TRUE, <<>>),
   Reply(200, T_OK, FALSE, <<>>), Reply(201, T_Created, TRUE, GoodValue(m)),
   Reply(301, T_Moved, FALSE, <<>>), Reply(304, T_NotModified, FALSE, <<>>),
   Reply(404, T_NotFound, TRUE, GoodValue(m)),
   Reply(500, T_ServerError, FALSE, <<>>)}

\* new RpcClient(config), while no call is in flight.
RpcConstruct ==
  /\ \A i \in 1..MaxInFlight : requests[i].pc = "idle"
  /\ \E config \in RpcConfigs : client' = RpcClient(config)
  /\ UNCHANGED <<requests, allBut_rpc>>

\* A method is called: request runs up to its await of fetch.
RpcCall(i) ==
  /\ client.made
  /\ requests[i].pc = "idle"
  /\ \E m \in RpcMethodsOf(i) : \E arg \in RpcArgs(m) :
       requests' = [requests EXCEPT ![i] = RequestStart(client, IdleRequest, m, arg)]
  /\ UNCHANGED <<client, allBut_rpc>>

\* The server replies and fetch settles.
RpcRespond(i) ==
  /\ requests[i].pc = "fetching"
  /\ ~requests[i].aborted
  /\ \E reply \in Replies(requests[i].method) :
       LET r == [requests[i] EXCEPT !.reply = reply]
           response == fetch(r.sent[1], reply)
       IN requests' = [requests EXCEPT ![i] =
            IF response.ok THEN AfterFetch(r, response.val)
            ELSE Finally(r, Throw(response.err, <<>>))]
  /\ UNCHANGED <<client, allBut_rpc>>

\* The connection fails and fetch rejects.
RpcNetworkError(i) ==
  /\ requests[i].pc = "fetching"
  /\ ~requests[i].aborted
  /\ requests' = [requests EXCEPT ![i] =
       Finally(requests[i], Throw(RpcError("TypeError", <<>>), <<>>))]
  /\ UNCHANGED <<client, allBut_rpc>>

\* The body has been read and response.json() settles.
RpcJson(i) ==
  /\ requests[i].pc = "parsing"
  /\ ~requests[i].aborted
  /\ requests' = [requests EXCEPT ![i] = AfterJson(requests[i])]
  /\ UNCHANGED <<client, allBut_rpc>>

\* The delay of a timer that was not cleared has passed: its callback
\* aborts the controller of its request.
RpcTimeout(i) ==
  /\ requests[i].timer = "armed"
  /\ requests' = [requests EXCEPT ![i].timer = "fired", ![i].aborted = TRUE,
                                  ![i].late = (requests[i].pc = "done")]
  /\ UNCHANGED <<client, allBut_rpc>>

\* The aborted fetch or body read rejects.
RpcAborted(i) ==
  /\ requests[i].pc \in {"fetching", "parsing"}
  /\ requests[i].aborted
  /\ requests' = [requests EXCEPT ![i] =
       Finally(requests[i], Throw(RpcError("AbortError", <<>>), <<>>))]
  /\ UNCHANGED <<client, allBut_rpc>>

\* The caller has taken the result.
RpcDone(i) ==
  /\ requests[i].pc = "done"
  /\ requests' = [requests EXCEPT ![i] = IdleRequest]
  /\ UNCHANGED <<client, allBut_rpc>>

RpcNext ==
  \/ RpcConstruct
  \/ \E i \in 1..MaxInFlight :
       \/ RpcCall(i)
       \/ RpcRespond(i)
       \/ RpcNetworkError(i)
       \/ RpcJson(i)
       \/ RpcTimeout(i)
       \/ RpcAborted(i)
       \/ RpcDone(i)

RpcSpec == Init /\ [][RpcNext]_vars

\* ------------------------------------------- two calls of Tx.buildTransfer

\* The parameter records of the model's calls: those of the signing calls,
\* and the same with the amount of the tests.
PairParams ==
  Params \cup {[p EXCEPT !.amount = Str(<<49, 48, 48, 48, 48, 48, 48, 48, 48, 48>>)] :
               p \in Params}

\* A result of an operation on a body, when the body was built.
OnBuilt(b, Op(_)) == IF b.ok THEN Op(b.val) ELSE NotCalled

\* Tx.buildTransfer is called on two parameter records that differ in their
\* memo at most.
PairBuild ==
  /\ pair = NoPair
  /\ \E p \in PairParams, m \in Memos :
       LET q == [p EXCEPT !.memo = m]
       IN pair' = [NoPair EXCEPT !.p = p, !.q = q, !.stage = "built",
                                 !.built = <<Tx_buildTransfer(p), Tx_buildTransfer(q)>>]
  /\ UNCHANGED allBut_build

\* Tx.canonicalBytes is called on the two bodies.
PairCanonicalBytes ==
  /\ pair.stage = "built"
  /\ pair' = [pair EXCEPT !.stage = "bytes",
                          !.bytes = <<OnBuilt(pair.built[1], Tx_canonicalBytes),
                                      OnBuilt(pair.built[2], Tx_canonicalBytes)>>]
  /\ UNCHANGED allBut_build

\* Tx.hash is called on the two bodies.
PairHash ==
  /\ pair.stage = "bytes"
  /\ pair' = [pair EXCEPT !.stage = "hash",
                          !.hash = <<OnBuilt(pair.built[1], Tx_hash),
                                     OnBuilt(pair.built[2], Tx_hash)>>]
  /\ UNCHANGED allBut_build

PairDone ==
  /\ pair.stage = "hash"
  /\ pair' = NoPair
  /\ UNCHANGED allBut_build

PairNext ==
  \/ PairBuild
  \/ PairCanonicalBytes
  \/ PairHash
  \/ PairDone

PairSpec == Init /\ [][PairNext]_vars

\* ================================================================== claims

\* The result of a verification call that returned b.
Returned(b) == Ok(b, <<>>)

\* The key that a call in the given form passes.
Arg(form) == KeyArg(key, form)

\* A key that Tx.signWithRawKey takes whose public half, if it has one, is the
\* public key of its seed.
WellFormedKey(k) ==
  \/ Len(k) = SEED_LEN
  \/ /\ Len(k) = SECRET_KEY_LEN
     /\ SubSeq(k, 33, 64) = LibGetPublicKey(SubSeq(k, 1, 32))

\* The public key that a signing call reports for an accepted key: derived from
\* a 32-byte seed, the last 32 bytes of a 64-byte key.
SignerOf(k) == IF Len(k) = SEED_LEN THEN LibGetPublicKey(k) ELSE SubSeq(k, 33, 64)

\* A verification of the unchanged result of Tx.signWithRawKey has been made.
VerifiedRawKeyTriple ==
  /\ verified # NotVerified
  /\ verified.slot[1] = "Tx.signWithRawKey"
  /\ verified.mode = "asis"

\* ---- C1
\* C1 as claimed: for every key that Tx.signWithRawKey accepts, a 64-byte key
\* whose last 32 bytes are not the public key of its first 32 included,
\* verifySync(hexToBytes(sigHex), hexToBytes(hashHex), hexToBytes(pubHex)) of
\* the returned triple is true.
C1_AnyAcceptedKeyVerifies ==
  VerifiedRawKeyTriple => verified.res = Returned(TRUE)

\* C1, amended: for every body and every key that Tx.signWithRawKey accepts and
\* that is a 32-byte seed or a 64-byte key whose last 32 bytes are the public
\* key of its first 32, verifySync of the returned triple is true.
C1_WellFormedKeyVerifies ==
  (VerifiedRawKeyTriple /\ WellFormedKey(Arg(verified.slot[2])))
    => verified.res = Returned(TRUE)

C1_Witness ==
  /\ VerifiedRawKeyTriple
  /\ verified.slot[2] = "key"
  /\ key = SecretKeyOf(SeedB)
  /\ MemoOf(tx) # Undefined
  /\ verified.res = Returned(TRUE)

\* ---- C2
\* The v1.3.0 operations that build a SignedTx.
CreateSignedOps ==
  {"Tx.createSigned", "Tx.createSignedAsync", "Tx.createSignedFromRawKey",
   "Tx.createSignedFromHexKey"}

\* Whether text is the standard padded base64 of n bytes.
IsBase64Of(text, n) ==
  /\ Len(base64ToBytes(text)) = n
  /\ bytesToBase64(base64ToBytes(text)) = text

\* Whether text is n lowercase hex digits.
IsLowerHex(text, n) ==
  /\ Len(text) = n
  /\ \A i \in 1..Len(text) :
       (text[i] >= 48 /\ text[i] <= 57) \/ (text[i] >= 97 /\ text[i] <= 102)

RawKeyRecordCalled(form) ==
  /\ results[<<"Tx.createSignedFromRawKey", form>>] # NotCalled
  /\ Len(Arg(form)) \in {SEED_LEN, SECRET_KEY_LEN}

SeedEntryPoints ==
  {<<"Tx.signWithRawKey", "seed">>, <<"Tx.signWithRawKey", "key">>,
   <<"Tx.sign", "key">>}

\* C5: when the key at hand is s || publicKey(s), Tx.signWithRawKey(tx, s),
\* Tx.signWithRawKey(tx, s || publicKey(s)) and Tx.sign(tx, s || publicKey(s))
\* return the same { sigHex, pubHex, hashHex }.
C5_SeedAndRecordAgree ==
  (Len(key) = SECRET_KEY_LEN /\ key = SecretKeyOf(SubSeq(key, 1, 32))) =>
    \A a, b \in SeedEntryPoints :
      (results[a] # NotCalled /\ results[b] # NotCalled) =>
        /\ results[a].ok
        /\ results[b].ok
        /\ results[a].val = results[b].val

C5_Witness ==
  /\ key = SecretKeyOf(SeedB)
  /\ results[<<"Tx.signWithRawKey", "seed">>].ok
  /\ results[<<"Tx.sign", "key">>].ok
  /\ results[<<"Tx.signWithRawKey", "seed">>].val = results[<<"Tx.sign", "key">>].val

\* ---- C6
\* The operations that take the 64-byte secret key of a key pair.
SecretKeyOps == {"Tx.sign", "Tx.createSigned"}

\* C6 as claimed: Tx.sign and Tx.createSigned return a result for a 32-byte
\* seed as they do for a 64-byte key.
C6_SeedOrRecordAccepted ==
  \A a \in SecretKeyOps, f \in Forms :
    (results[<<a, f>>] # NotCalled /\ Len(Arg(f)) \in {SEED_LEN, SECRET_KEY_LEN})
      => results[<<a, f>>].ok

\* C6, amended: Tx.sign and Tx.createSigned return a signature, public key and
\* hash for a 64-byte key and throw 'Secret key must be 64 bytes' for every
\* other length, a 32-byte seed included; it is Tx.signWithRawKey and
\* Tx.createSignedFromRawKey that take a 32-byte seed as well.
C6_OnlyRecordAccepted ==
  \A f \in Forms :
    /\ \A a \in SecretKeyOps :
         results[<<a, f>>] # NotCalled =>
           IF Len(Arg(f)) = SECRET_KEY_LEN
           THEN /\ results[<<a, f>>].ok
                /\ results[<<a, f>>].val # <<>>
           ELSE /\ ~results[<<a, f>>].ok
                /\ results[<<a, f>>].err = ERR_KEY64
    /\ \A a \in {"Tx.signWithRawKey", "Tx.createSignedFromRawKey"} :
         (results[<<a, f>>] # NotCalled /\ Len(Arg(f)) \in {SEED_LEN, SECRET_KEY_LEN})
           => results[<<a, f>>].ok

C6_Witness ==
  /\ Len(key) = SECRET_KEY_LEN
  /\ results[<<"Tx.sign", "seed">>].err = ERR_KEY64
  /\ results[<<"Tx.sign", "key">>].ok

\* ---- C7
\* The operations that C7 names.
RawKeyOps ==
  {"Tx.signWithRawKey", "Tx.createSignedFromRawKey", "Tx.signWithHexKey",
   "Tx.createSignedFromHexKey", "signSync"}

\* The errors that tell of a key of a wrong length.
KeyLengthErrors == {ERR_RAWKEY, ERR_KEY_32_64}

\* Whether x is one of the steps.
Entered(steps, x) == \E i \in 1..Len(steps) : steps[i] = x

\* C7: with a key of a length that is neither 32 nor 64, Tx.signWithRawKey,
\* Tx.createSignedFromRawKey, Tx.signWithHexKey, Tx.createSignedFromHexKey and
\* signSync throw a key-length error and return nothing, and the Tx operations
\* throw before the transaction is hashed.
C7_BadKeyLengthThrows ==
  Len(key) \notin {SEED_LEN, SECRET_KEY_LEN} =>
    \A a \in RawKeyOps :
      LET r == results[<<a, "key">>] IN
      r # NotCalled =>
        /\ ~r.ok
        /\ r.val = <<>>
        /\ r.err \in KeyLengthErrors
        /\ ~Entered(r.steps, "Tx.hash")
        /\ ~Entered(r.steps, "hashTx")
        /\ ~Entered(r.steps, "signSync")

C7_Witness ==
  /\ Len(key) = 65
  /\ results[<<"Tx.signWithRawKey", "key">>].err = ERR_RAWKEY
  /\ results[<<"signSync", "key">>].err = ERR_KEY_32_64

\* ---- C8
\* C8 as claimed: verify never throws, and returns false when the signature is
\* not 64 bytes, the public key is not 32 bytes, or either is otherwise not the
\* one that was returned.
C8_VerifyNeverThrows ==
  verified # NotVerified =>
    /\ verified.res.ok
    /\ verified.mode # "asis" => verified.res.val = FALSE

\* C8, amended: verify and verifySync throw 'Signature must be 64 bytes' for a
\* signature of another length and 'Public key must be 32 bytes' for a public
\* key of another length; given 64 and 32 bytes they never throw, and return
\* false for a public key that is no curve point or is another key.
C8_VerifyThrowsOnLengthOnly ==
  verified # NotVerified =>
    CASE verified.mode = "shortSig" ->
           ~verified.res.ok /\ verified.res.err = ERR_SIG64
      [] verified.mode = "shortPub" ->
           ~verified.res.ok /\ verified.res.err = ERR_PUB32
      [] verified.mode \in {"otherPub", "noPoint"} ->
           verified.res = Returned(FALSE)
      [] OTHER -> verified.res.ok /\ verified.res.val \in BOOLEAN

C8_Witness ==
  /\ verified # NotVerified
  /\ verified.mode = "noPoint"
  /\ verified.async
  /\ verified.res = Returned(FALSE)

\* ---- C9
\* The number of UTF-8 bytes of a string of code points below U+0800, counted
\* by character class.
Utf8Size(str) ==
  Cardinality({i \in 1..Len(str) : str[i] < 128})
    + 2 * Cardinality({i \in 1..Len(str) : str[i] >= 128 /\ str[i] < 2048})

\* The memo parameter of the last Tx.buildTransfer call, as a string ("" when
\* there is none).
MemoParam == params.memo.s

\* C9: Tx.buildTransfer returns iff the memo has at most 256 UTF-8 bytes, and
\* then carries a non-empty memo verbatim: 256 one-byte characters are taken,
\* 257 throw, 128 two-byte characters are taken and 129 (258 bytes) throw
\* although they are fewer than 256 characters.
C9_MemoLimitInBytes ==
  built # NotCalled =>
    /\ built.ok <=> Utf8Size(MemoParam) <= 256
    /\ ~built.ok => built.err = ERR_MEMO /\ tx = NoTx
    /\ (built.ok /\ Len(MemoParam) > 0) => MemoOf(built.val) = params.memo
    /\ (built.ok /\ Len(MemoParam) = 0) => MemoOf(built.val) = Undefined
    /\ MemoParam = Repeat(97, 256) => built.ok
    /\ MemoParam = Repeat(97, 257) => ~built.ok
    /\ MemoParam = Repeat(233, 128) => built.ok
    /\ MemoParam = Repeat(233, 129) => ~built.ok

C9_Witness ==
  /\ built # NotCalled
  /\ MemoParam = Repeat(233, 129)
  /\ Len(MemoParam) < 256
  /\ ~built.ok

\* ---- C10
\* The body at hand carries a memo of more than 256 UTF-8 bytes.
OversizeMemo(t) == t # NoTx /\ MemoOf(t) # Undefined /\ Utf8Size(MemoOf(t).s) > 256

\* The operations that canonicalize the body.
CanonicalizingOps ==
  {"Tx.canonicalBytes", "Tx.hash", "Tx.sign", "Tx.signWithRawKey", "Tx.createSigned",
   "Tx.createSignedAsync", "Tx.createSignedFromRawKey", "Tx.createSignedFromHexKey"}

\* C10 as claimed: no call of Tx.canonicalBytes, Tx.hash, Tx.sign,
\* Tx.signWithRawKey or a createSigned* operation returns for a body whose
\* memo exceeds 256 bytes, a directly constructed body included.
C10_OversizeNeverCanonicalized ==
  OversizeMemo(tx) =>
    \A s \in Slots : s[1] \in CanonicalizingOps => ~results[s].ok

\* C10, amended: a memo of more than 256 bytes is rejected by Tx.buildTransfer,
\* before any body exists and so before canonicalization; Tx.canonicalBytes,
\* Tx.hash and the signing operations do not look at the memo, and on a
\* directly constructed body with such a memo they return, with the whole memo
\* in the canonical bytes (never truncated).
C10_OnlyBuilderRejects ==
  /\ (built # NotCalled /\ Utf8Size(MemoParam) > 256) =>
       /\ ~built.ok
       /\ tx = NoTx
       /\ Called = {}
  /\ built # NotCalled => ~OversizeMemo(tx)
  /\ OversizeMemo(tx) =>
       /\ results[<<"Tx.canonicalBytes", "key">>] # NotCalled =>
            /\ results[<<"Tx.canonicalBytes", "key">>].ok
            /\ Len(results[<<"Tx.canonicalBytes", "key">>].val)
                 = Len(canonicalJSON(TestTx)) + 10 + Utf8Size(MemoOf(tx).s)
       /\ results[<<"Tx.hash", "key">>] # NotCalled => results[<<"Tx.hash", "key">>].ok
       /\ \A a \in {"Tx.sign", "Tx.createSigned"} :
            (results[<<a, "key">>] # NotCalled /\ Len(key) = SECRET_KEY_LEN)
              => results[<<a, "key">>].ok

C10_Witness ==
  /\ OversizeMemo(tx)
  /\ built = NotCalled
  /\ results[<<"Tx.canonicalBytes", "key">>].ok
  /\ results[<<"Tx.createSigned", "key">>].ok

\* ---- C11
\* The (key, value) pairs of a body whose value is neither undefined nor null.
PresentFields(t) ==
  {<<t[i][1], t[i][2]>> : i \in {j \in 1..Len(t) : t[j][2].t \notin {"undefined", "null"}}}

\* A string between double quotes.
Quoted(str) == <<34>> \o str \o <<34>>

\* Whether every present value of t is a string of printable ASCII without
\* '"' and '\'.
PlainBody(t) ==
  \A f \in PresentFields(t) :
    /\ f[2].t = "string"
    /\ \A i \in 1..Len(f[2].s) :
         f[2].s[i] >= 32 /\ f[2].s[i] < 127 /\ f[2].s[i] \notin {34, 92}

\* The JSON text of a plain body written out key by key in the order amount,
\* fee, from, memo, nonce, to, type, without any whitespace.
AlphabeticalJSON(t) ==
  LET keys == <<S_amount, S_fee, S_from, S_memo, S_nonce, S_to, S_type>>
      there == SelectSeq(keys, LAMBDA k : FieldOf(t, k).t = "string")
  IN <<123>>
     \o Flatten([i \in 1..Len(there) |->
          (IF i > 1 THEN <<44>> ELSE <<>>)
          \o Quoted(there[i]) \o <<58>> \o Quoted(FieldOf(t, there[i]).s)])
     \o <<125>>

\* C11: two bodies with the same (key, value) pairs, written in any two orders,
\* have the same canonical bytes; the bytes are the pairs in the order amount,
\* fee, from, memo, nonce, to, type without whitespace between them, and a
\* memo that is absent, undefined or null adds no key.
C11_OrderIndependent ==
  (canon.ra.ok /\ canon.rb.ok) =>
    /\ PresentFields(canon.a) = PresentFields(canon.b) => canon.ra.val = canon.rb.val
    /\ PlainBody(canon.a) => canon.ra.val = AlphabeticalJSON(canon.a)
    /\ PlainBody(canon.b) => canon.rb.val = AlphabeticalJSON(canon.b)
    /\ (\E i \in 1..Len(canon.b) :
          canon.b[i][1] = S_memo /\ canon.b[i][2].t \in {"undefined", "null"})
         => canon.rb.val = AlphabeticalJSON(TestTx)

C11_Witness ==
  /\ canon.pick = "reorder"
  /\ canon.a = MemoTx
  /\ canon.b = Reorder(MemoTx, [i \in 1..7 |-> 8 - i])
  /\ canon.ra.ok
  /\ canon.rb.ok
  /\ canon.ra.val = canon.rb.val

\* ---- C12
\* C12: two bodies that differ in a field, or of which one has a memo and the
\* other none, have different canonical bytes.
C12_Injective ==
  (canon.ra.ok /\ canon.rb.ok /\ PresentFields(canon.a) # PresentFields(canon.b))
    => canon.ra.val # canon.rb.val

C12_Witness ==
  /\ canon.pick = "vary"
  /\ canon.a = TestTx
  /\ canon.b = SetField(TestTx, S_memo, Str(<<>>))
  /\ canon.ra.ok
  /\ canon.rb.ok
  /\ canon.ra.val # canon.rb.val

\* ---- C13
\* Whether the sequence part occurs in the sequence whole.
Contains(whole, part) ==
  \E i \in 1..(Len(whole) - Len(part) + 1) :
    \A j \in 1..Len(part) : whole[i + j - 1] = part[j]

\* C13: in the canonical bytes of a body that Tx.buildTransfer returned,
\* amount, fee and nonce are JSON strings ("amount":"...") whatever the type of
\* the parameters was, never JSON numbers.
C13_AmountsAreStrings ==
  (canon.pick = "build" /\ canon.ra.ok) =>
    \A k \in {S_amount, S_fee, S_nonce} :
      Contains(canon.ra.val, Quoted(k) \o <<58, 34>>)

\* ---- C14
\* The ASCII bytes of "Archivas-TxV1".
TagBytes == <<65, 114, 99, 104, 105, 118, 97, 115, 45, 84, 120, 86, 49>>

\* The place of the first x among the steps, 0 when there is none.
StepOf(steps, x) ==
  IF Entered(steps, x)
  THEN CHOOSE i \in 1..Len(steps) :
         steps[i] = x /\ \A j \in 1..(i - 1) : steps[j] # x
  ELSE 0

\* The slots whose result carries a signature and a hash.
SigningSlots ==
  {s \in Slots : s[1] \in {"Tx.sign", "Tx.signWithRawKey", "Tx.signWithHexKey"}
                         \cup CreateSignedOps}

\* The signature and the hash of a signing result, as bytes.
SigBytesOf(s) ==
  IF s[1] \in CreateSignedOps THEN base64ToBytes(results[s].val.sig)
  ELSE hexToBytes(results[s].val.sigHex).val

HashTextOf(s) ==
  IF s[1] \in CreateSignedOps THEN results[s].val.hash ELSE results[s].val.hashHex

\* C14: Tx.hash(tx) is the 32-byte blake2b-256 digest of "Archivas-TxV1"
\* followed by Tx.canonicalBytes(tx); a signing operation canonicalizes, then
\* hashes, then signs; its signature is the Ed25519 signature of that hash, not
\* of the canonical bytes, and its hashHex or hash is the hex of that hash.
C14_CanonicalizeHashSign ==
  LET cb == results[<<"Tx.canonicalBytes", "key">>]
      h == results[<<"Tx.hash", "key">>]
  IN /\ (cb.ok /\ h.ok) =>
          /\ h.val = blake2b(TagBytes \o cb.val, 32)
          /\ Len(h.val) = 32
     /\ \A s \in SigningSlots :
          results[s].ok =>
            /\ 0 < StepOf(results[s].steps, "canonicalJSON")
            /\ StepOf(results[s].steps, "canonicalJSON") < StepOf(results[s].steps, "hashTx")
            /\ StepOf(results[s].steps, "hashTx") < StepOf(results[s].steps, "signSync")
            /\ h.ok =>
                 /\ HashTextOf(s) = bytesToHex(h.val)
                 /\ SigBytesOf(s) = LibSign(h.val, SubSeq(Arg(s[2]), 1, 32))
            /\ cb.ok => SigBytesOf(s) # LibSign(cb.val, SubSeq(Arg(s[2]), 1, 32))

C14_Witness ==
  /\ results[<<"Tx.hash", "key">>].ok
  /\ results[<<"Tx.createSignedFromRawKey", "seed">>].ok
  /\ MemoOf(tx) # Undefined
  /\ results[<<"Tx.createSignedFromRawKey", "seed">>].val.hash
       = bytesToHex(results[<<"Tx.hash", "key">>].val)

\* ---- C15
\* The ASCII bytes of "ed25519 seed".
Ed25519SeedText == <<101, 100, 50, 53, 53, 49, 57, 32, 115, 101, 101, 100>>

DeriveOps == {"deriveKeyPair", "deriveKeyPairAsync"}

\* C15: for a seed of 64 bytes deriveKeyPair returns a public key of 32 bytes
\* and a secret key of 64 bytes whose first half is the left half of
\* HMAC-SHA512(key "ed25519 seed", seed), whose second half is the public key,
\* and the public key is getPublicKeySync of the first half; for a seed of any
\* other length it throws and returns no key material.
C15_DeriveKeyPair ==
  deriv.op \in DeriveOps =>
    LET seed == deriv.input.seed
        r == deriv.res
    IN IF Len(seed) = 64
       THEN /\ r.ok
            /\ Len(r.val.publicKey) = 32
            /\ Len(r.val.secretKey) = 64
            /\ SubSeq(r.val.secretKey, 1, 32)
                 = SubSeq(hmacSha512(Ed25519SeedText, seed), 1, 32)
            /\ SubSeq(r.val.secretKey, 33, 64) = r.val.publicKey
            /\ getPublicKeySync(SubSeq(r.val.secretKey, 1, 32)).ok
            /\ r.val.publicKey = getPublicKeySync(SubSeq(r.val.secretKey, 1, 32)).val
       ELSE /\ ~r.ok
            /\ r.err = "Seed must be 64 bytes"
            /\ r.val = <<>>

C15_Witness ==
  /\ deriv.op = "deriveKeyPair"
  /\ deriv.input.seed = mnemonicToSeedSync(Mnemonic24, <<>>)
  /\ deriv.res.ok
  /\ Len(deriv.res.val.secretKey) = 64

\* ---- C16
\* ser32(i) of SLIP-0010, big-endian; a hardened index has the top bit set.
Ser32(i, hardened) ==
  <<(IF hardened THEN 128 ELSE 0) + (i \div 16777216), (i \div 65536) % 256,
    (i \div 256) % 256, i % 256>>

\* The master node of a seed: key and chain code.
MasterNode(seed) ==
  LET I == hmacSha512(Ed25519SeedText, seed)
  IN [k |-> SubSeq(I, 1, 32), c |-> SubSeq(I, 33, 64)]

\* One private child-derivation step of SLIP-0010.
ChildNode(node, i, hardened) ==
  LET I == hmacSha512(node.c, <<0>> \o node.k \o Ser32(i, hardened))
  IN [k |-> SubSeq(I, 1, 32), c |-> SubSeq(I, 33, 64)]

\* The key at m/734'/0'/0'/0/0.
PathKey(seed) ==
  ChildNode(ChildNode(ChildNode(ChildNode(ChildNode(MasterNode(seed),
    734, TRUE), 0, TRUE), 0, TRUE), 0, FALSE), 0, FALSE).k

FromMnemonicOps == {"fromMnemonic", "fromMnemonicAsync"}

\* C16: the signing seed that Derivation.fromMnemonic returns is the key at
\* m/734'/0'/0'/0/0 of the seed of the mnemonic, reached by the child steps
\* 734', 0', 0', 0, 0 from the master key, and is not the master key itself.
C16_DerivesAlongPath ==
  (deriv.op \in FromMnemonicOps /\ deriv.res.ok) =>
    LET seed == mnemonicToSeedSync(deriv.input.mnemonic, deriv.input.passphrase)
        signingSeed == SubSeq(deriv.res.val.secretKey, 1, 32)
    IN /\ signingSeed = PathKey(seed)
       /\ signingSeed # MasterNode(seed).k

\* ---- C17
MnemonicOps ==
  FromMnemonicOps \cup {"mnemonicToAddress", "mnemonicToAddressAsync", "mnemonicToSeed"}

\* C17: for a mnemonic that validateMnemonic rejects, Derivation.fromMnemonic,
\* Derivation.mnemonicToAddress and mnemonicToSeed throw "Invalid mnemonic";
\* nothing is returned, and neither the seed expansion nor deriveKeyPair nor
\* the address encoding is reached.
C17_InvalidMnemonicRejected ==
  (deriv.op \in MnemonicOps /\ ~validateMnemonic(deriv.input.mnemonic)) =>
    /\ ~deriv.res.ok
    /\ deriv.res.err = "Invalid mnemonic"
    /\ deriv.res.val = <<>>
    /\ ~Entered(deriv.res.steps, "mnemonicToSeedSync")
    /\ ~Entered(deriv.res.steps, "deriveKeyPair")
    /\ ~Entered(deriv.res.steps, "encode")

C17_Witness ==
  /\ deriv.op = "mnemonicToAddress"
  /\ deriv.input.mnemonic = [Mnemonic24 EXCEPT ![24] = (@ + 1) % 2048]
  /\ ~validateMnemonic(deriv.input.mnemonic)
  /\ ~deriv.res.ok

\* ---- C18
\* What is the same in the statement and in its amendment: the mnemonics that
\* are produced have 24 words, and only a strength of 256 is served.
ProducesOnly24Words ==
  /\ deriv.op = "mnemonicGenerate" => (deriv.res.ok /\ Len(deriv.res.val) = 24)
  /\ deriv.op = "generateMnemonic" =>
       IF deriv.input.strength = 256
       THEN deriv.res.ok /\ Len(deriv.res.val) = 24
       ELSE ~deriv.res.ok /\ deriv.res.err = "Only 256-bit entropy (24 words) is supported"

SeedOrKeyOps == FromMnemonicOps \cup {"mnemonicToSeed"}

\* C18 as stated: every mnemonic that is produced has 24 words, and
\* mnemonicToSeed and Derivation.fromMnemonic reject every mnemonic that has
\* not 24 words.
C18_Only24Words ==
  /\ ProducesOnly24Words
  /\ (deriv.op \in SeedOrKeyOps /\ Len(deriv.input.mnemonic) # 24) => ~deriv.res.ok

\* C18, amended: every mnemonic that is produced has 24 words and
\* generateMnemonic throws for a strength other than 256; mnemonicToSeed and
\* Derivation.fromMnemonic accept the mnemonics that validateMnemonic accepts,
\* which have 12, 15, 18, 21 or 24 words, the checksum-valid mnemonics of 12
\* to 21 words among them, and reject every other mnemonic.
C18_GeneratesOnly24Words ==
  /\ ProducesOnly24Words
  /\ deriv.op \in SeedOrKeyOps =>
       /\ deriv.res.ok <=> validateMnemonic(deriv.input.mnemonic)
       /\ deriv.res.ok => Len(deriv.input.mnemonic) \in {12, 15, 18, 21, 24}
       /\ deriv.input.mnemonic \in ShortMnemonics => deriv.res.ok

C18_Witness ==
  /\ deriv.op = "fromMnemonic"
  /\ deriv.input.mnemonic = Mnemonic12
  /\ Len(deriv.input.mnemonic) = 12
  /\ deriv.res.ok

\* ---- C19
\* The ASCII characters of "arcv".
ArcvText == <<97, 114, 99, 118>>

\* C19: parseAddress throws when bech32 rejects the text (its checksum among
\* the reasons), when the prefix is not "arcv", and when the payload is not of
\* 20 bytes (32 words of five bits); otherwise it returns the payload, 20
\* bytes. isValidAddress never throws, and returns true exactly when
\* parseAddress returns.
C19_ParseAddress ==
  LET text == addr.input.text
      decoded == bech32_decode(text)
      r == addr.res
  IN /\ addr.op = "parseAddress" =>
          /\ ~decoded.ok => (~r.ok /\ r.err = decoded.err)
          /\ (decoded.ok /\ decoded.val.prefix # ArcvText) =>
               (~r.ok /\ r.err = "Invalid address prefix")
          /\ (decoded.ok /\ decoded.val.prefix = ArcvText /\ Len(decoded.val.words) # 32) =>
               ~r.ok
          /\ (decoded.ok /\ decoded.val.prefix = ArcvText /\ Len(decoded.val.words) = 32) =>
               /\ r.ok
               /\ Len(r.val) = 20
               /\ bech32_toWords(r.val) = decoded.val.words
          /\ ~r.ok => r.val = <<>>
          /\ \A pk \in PublicKeys :
               LET a == pubKeyToAddress(pk).val IN
               text \in {[a EXCEPT ![Len(a)] = OtherChar(@)], [a EXCEPT ![12] = OtherChar(@)]}
                 => (~r.ok /\ r.err = "Invalid checksum")
     /\ addr.op = "isValidAddress" =>
          /\ r.ok
          /\ r.val \in BOOLEAN
          /\ r.val <=> parseAddress(text).ok

C19_Witness ==
  /\ addr.op = "parseAddress"
  /\ bech32_decode(addr.input.text).ok
  /\ bech32_decode(addr.input.text).val.prefix = <<97, 114, 99, 120>>
  /\ ~addr.res.ok

\* ---- C20
\* The ASCII characters of "arcv1".
Arcv1Text == <<97, 114, 99, 118, 49>>

\* C20: for a public key of 32 bytes pubKeyToAddress returns "arcv1" followed
\* by 38 characters of the bech32 alphabet; isValidAddress of it is true and
\* parseAddress of it returns blake2b-160 of the key; for a key of any other
\* length pubKeyToAddress throws.
C20_AddressRoundTrip ==
  LET pk == addr.input.publicKey
      r == addr.res
  IN /\ addr.op = "pubKeyToAddress" =>
          IF Len(pk) = 32
          THEN /\ r.ok
               /\ Len(r.val) = 5 + 38
               /\ SubSeq(r.val, 1, 5) = Arcv1Text
               /\ \A i \in 6..Len(r.val) : AlphabetValue(r.val[i]) >= 0
               /\ isValidAddress(r.val).val = TRUE
               /\ parseAddress(r.val).ok
               /\ parseAddress(r.val).val = blake2b(pk, 20)
          ELSE /\ ~r.ok
               /\ r.err = "Public key must be 32 bytes"
               /\ r.val = <<>>
     /\ (addr.op = "parseAddress" /\ pk # <<>>) =>
          (r.ok /\ r.val = blake2b(pk, 20) /\ Len(r.val) = 20)
     /\ (addr.op = "isValidAddress" /\ pk # <<>>) => (r.ok /\ r.val = TRUE)

C20_Witness ==
  /\ addr.op = "parseAddress"
  /\ addr.input.publicKey = LibGetPublicKey(SeedA)
  /\ addr.input.text = pubKeyToAddress(LibGetPublicKey(SeedA)).val
  /\ addr.res.ok
  /\ addr.res.val = blake2b(LibGetPublicKey(SeedA), 20)

\* ---- C21
DeterministicOps == {"fromMnemonic", "mnemonicToAddress", "Tx.hash", "Tx.sign"}

C22_WrappersAgree ==
  (wrap.sync # NotCalled /\ wrap.promise = "settled") =>
    /\ wrap.awaited.ok = wrap.sync.ok
    /\ wrap.awaited.val = wrap.sync.val
    /\ wrap.awaited.err = wrap.sync.err

C22_Witness ==
  /\ wrap.op = "verifySync"
  /\ wrap.promise = "settled"
  /\ wrap.sync.ok
  /\ wrap.sync.val = TRUE
  /\ wrap.awaited.val = TRUE

\* ---- C23
\* C23: for a key of 32 or 64 bytes written as hex, with or without 0x in
\* front, Tx.signWithHexKey returns what Tx.signWithRawKey returns on the
\* bytes, and Tx.createSignedFromHexKey what Tx.createSignedFromRawKey returns.
C23_HexKeyAgrees ==
  (hexkey.like \in {"plain", "0x"} /\ hexkey.raw # NotCalled
   /\ Len(hexkey.bytes) \in {32, 64}) =>
    /\ hexkey.hex.ok
    /\ hexkey.raw.ok
    /\ hexkey.hex.val = hexkey.raw.val

C23_Witness ==
  /\ hexkey.op = "Tx.createSignedFromHexKey"
  /\ hexkey.like = "0x"
  /\ Len(hexkey.bytes) = 32
  /\ hexkey.raw.ok
  /\ hexkey.hex.val = hexkey.raw.val

\* ---- C24
\* A string of hex digits, an even number of them, with or without 0x in front.
IsHexString(text) ==
  LET clean == IF Len(text) >= 2 /\ SubSeq(text, 1, 2) = <<48, 120>>
               THEN SubSeq(text, 3, Len(text)) ELSE text
  IN /\ Len(clean) % 2 = 0
     /\ \A i \in 1..Len(clean) :
          \/ (clean[i] >= 48 /\ clean[i] <= 57)
          \/ (clean[i] >= 97 /\ clean[i] <= 102)
          \/ (clean[i] >= 65 /\ clean[i] <= 70)

\* C24: hexToBytes, Tx.signWithHexKey and Tx.createSignedFromHexKey throw for
\* every text that is not an even number of hex digits (with or without 0x in
\* front), a text with a character that is no hex digit among them; they
\* return no bytes and no signature for it.
C24_MalformedHexRejected ==
  (hexkey.op \in HexOps /\ ~IsHexString(hexkey.text)) =>
    /\ ~hexkey.hex.ok
    /\ hexkey.hex.val = <<>>

\* ---- C25
\* C25: whatever the interleaving of the statements of the signing calls in
\* flight, a call that has ended (returned, thrown, or its promise settled)
\* has the result that the operation gives on its body and key alone.
C25_CallsDoNotInterfere ==
  \A i \in 1..MaxInFlight :
    inflight[i].pc = "done" =>
      LET alone == RunAlone(inflight[i].op, inflight[i].passed.tx, inflight[i].passed.key)
      IN /\ inflight[i].res.ok = alone.ok
         /\ inflight[i].res.val = alone.val
         /\ inflight[i].res.err = alone.err

C25_Witness ==
  /\ inflight[1].pc = "done" /\ inflight[1].overlapped /\ inflight[1].res.ok
  /\ inflight[2].pc = "done" /\ inflight[2].overlapped /\ inflight[2].res.ok
  /\ inflight[1].op = "Tx.signAsync"
  /\ inflight[2].op = "Tx.createSignedFromRawKey"
  /\ inflight[1].passed.key # inflight[2].passed.key

\* ---- C26
\* C26: when a signing call has ended, the caller's body object and key
\* buffer hold what they held when the call was made, and the tx of a
\* SignedTx that was returned is the body that was passed.
C26_InputsUnchanged ==
  \A i \in 1..MaxInFlight :
    inflight[i].pc = "done" =>
      /\ inflight[i].txObject = inflight[i].passed.tx
      /\ inflight[i].keyBuffer = inflight[i].passed.key
      /\ (inflight[i].res.ok /\ inflight[i].op \in ConcPackOps) =>
           inflight[i].res.val.tx = inflight[i].passed.tx

C26_Witness ==
  /\ inflight[1].pc = "done" /\ inflight[1].res.ok
  /\ inflight[1].op = "Tx.createSignedFromRawKey"
  /\ Len(inflight[1].passed.key) = 64
  /\ inflight[1].res.val.tx = TxOfCall(1)
  /\ inflight[2].pc = "done" /\ inflight[2].res.ok
  /\ inflight[2].op = "Tx.signWithRawKey"
  /\ Len(inflight[2].passed.key) = 32

\* ---- C27
\* C27: a method call that has been made has sent exactly one HTTP request,
\* however it went on; getRecentBlocks sent GET
\* <baseUrl>/blocks/recent?limit=<limit>, with 20 for a limit that was not
\* given, and returns the blocks of the response; getRecentTxs sent GET
\* <baseUrl>/tx/recent?limit=<limit>, with 50 for a limit that was not given,
\* and returns the txs; getBlockByHeight sent GET <baseUrl>/block/<h>.
C27_OneRequestPerCall ==
  \A i \in 1..MaxInFlight :
    LET r == requests[i]
        limit(d) == IF r.arg = Undefined THEN d ELSE Template(r.arg)
    IN r.pc # "idle" =>
         /\ Len(r.sent) = 1
         /\ r.method = "getRecentBlocks" =>
              /\ r.sent[1].method = "GET"
              /\ r.sent[1].url = client.baseUrl \o P_blocksRecent \o limit(<<50, 48>>)
              /\ (r.pc = "done" /\ r.res.ok) => r.res.val = FieldOf(r.reply.value, S_blocks)
         /\ r.method = "getRecentTxs" =>
              /\ r.sent[1].method = "GET"
              /\ r.sent[1].url = client.baseUrl \o P_txRecent \o limit(<<53, 48>>)
              /\ (r.pc = "done" /\ r.res.ok) => r.res.val = FieldOf(r.reply.value, S_txs)
         /\ r.method = "getBlockByHeight" =>
              /\ r.sent[1].method = "GET"
              /\ r.sent[1].url = client.baseUrl \o P_block \o Template(r.arg)

C27_Witness ==
  /\ requests[1].pc = "done"
  /\ requests[1].method = "getRecentTxs"
  /\ requests[1].arg = Undefined
  /\ requests[1].sent[1].url = TEST_BASE_URL \o P_txRecent \o <<53, 48>>
  /\ requests[1].reply.status = 500
  /\ ~requests[1].res.ok
  /\ requests[2].pc = "done"
  /\ requests[2].res.ok

C30_BuildTransfer ==
  /\ \A k \in 1..2 :
       LET given == IF k = 1 THEN pair.p ELSE pair.q
           body == pair.built[k].val
       IN pair.built[k].ok =>
            /\ FieldOf(body, S_type) = Str(S_transfer)
            /\ FieldOf(body, S_from) = given.from
            /\ FieldOf(body, S_to) = given.to
            /\ FieldOf(body, S_amount) = given.amount
            /\ FieldOf(body, S_fee) = given.fee
            /\ FieldOf(body, S_nonce) = given.nonce
            /\ (\E i \in 1..Len(body) : body[i][1] = S_memo)
                 <=> (given.memo.t = "string" /\ Len(given.memo.s) > 0)
  /\ (pair.stage # "" /\ pair.p.memo = Str(<<>>) /\ pair.q.memo = Undefined) =>
       /\ pair.built[1].ok /\ pair.built[2].ok
       /\ pair.built[1].val = pair.built[2].val
       /\ pair.stage \in {"bytes", "hash"} =>
            (pair.bytes[1].ok /\ pair.bytes[1].val = pair.bytes[2].val)
       /\ pair.stage = "hash" =>
            (pair.hash[1].ok /\ pair.hash[1].val = pair.hash[2].val)

C30_Witness ==
  /\ pair.stage = "hash"
  /\ pair.p.memo = Str(<<>>)
  /\ pair.q.memo = Undefined
  /\ pair.hash[1].ok
  /\ Len(pair.hash[1].val) = HASH_LEN
  /\ pair.hash[1].val = pair.hash[2].val
  /\ Len(pair.built[1].val) = 6

====
